---- MODULE Spec2Model ----
(***************************************************************************)
(* HogTrace: probe language pipeline (parser -> compiler -> bytecode ->    *)
(* stack VM -> host dispatcher).  The model follows the Rust sources:      *)
(*   value.rs, constant_pool.rs, opcodes.rs, dispatcher.rs, executor.rs,  *)
(*   python_dispatcher.rs, python_bindings.rs, parser/mod.rs,              *)
(*   parser/compiler.rs.                                                   *)
(*                                                                         *)
(* Representation notes.                                                   *)
(*  - A Value is a record whose field set depends on the variant           *)
(*    ([t, b] Bool, [t, i] Int, [t, f] Float, [t, s] String, [t] None,     *)
(*    [t, o] Object).                                                      *)
(*  - i64 is modelled by a two's complement integer of IntBits bits; the   *)
(*    arithmetic is the same modulo the width.                             *)
(*  - f64 is modelled by an exact rational, +/-infinity or NaN.  Signed    *)
(*    zero is not distinguished (0.0 == -0.0 in every comparison the code  *)
(*    makes).                                                              *)
(*  - A Result is [r |-> "ok", v], [r |-> "err", m] or [r |-> "panic", m]; *)
(*    a panic is the Rust panic that unwinds out of the call.              *)
(***************************************************************************)
EXTENDS Integers, Sequences, FiniteSets, TLC

(***************************************************************************)
(* Results                                                                 *)
(***************************************************************************)
Ok(v) == [r |-> "ok", v |-> v]

Err(m) == [r |-> "err", m |-> m]

Panic(m) == [r |-> "panic", m |-> m]

Unit == [t |-> "Unit"]

(***************************************************************************)
(* value.rs: Value                                                         *)
(***************************************************************************)
IntBits == 16

IntMin == -(2 ^ (IntBits - 1))

IntMax == (2 ^ (IntBits - 1)) - 1

VBool(b) == [t |-> "Bool", b |-> b]

VInt(i) == [t |-> "Int", i |-> i]

VFloat(f) == [t |-> "Float", f |-> f]

VString(s) == [t |-> "String", s |-> s]

VNone == [t |-> "None"]

VObject(o) == [t |-> "Object", o |-> o]

\* f64 payloads: a normalised rational n/d (d > 0), an infinity (n = +1/-1) or NaN
Abs(x) == IF x < 0 THEN -x ELSE x

Sign(x) == IF x < 0 THEN -1 ELSE IF x = 0 THEN 0 ELSE 1

RECURSIVE Gcd(_, _)
Gcd(a, b) == IF b = 0 THEN a ELSE Gcd(b, a % b)

\* integer division truncating toward zero, as Rust's `/` on integers
TruncDiv(a, b) == Sign(a) * Sign(b) * (Abs(a) \div Abs(b))

\* remainder with the sign of the dividend, as Rust's `%`
TruncRem(a, b) == a - b * TruncDiv(a, b)

FNaN == [k |-> "nan", n |-> 0, d |-> 1]

FInf(s) == [k |-> "inf", n |-> s, d |-> 1]

FRat(n, d) ==
    LET g == Gcd(Abs(n), Abs(d))
        s == Sign(d)
    IN  [k |-> "fin", n |-> (s * n) \div g, d |-> (s * d) \div g]

FInt(i) == [k |-> "fin", n |-> i, d |-> 1]

FZero == FInt(0)

FIsZero(a) == a.k = "fin" /\ a.n = 0

FNeg(a) == IF a.k = "nan" THEN a ELSE [a EXCEPT !.n = -a.n]

FAdd(a, b) ==
    IF a.k = "nan" \/ b.k = "nan" THEN FNaN
    ELSE IF a.k = "inf" THEN (IF b.k = "inf" /\ b.n # a.n THEN FNaN ELSE a)
    ELSE IF b.k = "inf" THEN b
    ELSE FRat(a.n * b.d + b.n * a.d, a.d * b.d)

FSub(a, b) == FAdd(a, FNeg(b))

FMul(a, b) ==
    IF a.k = "nan" \/ b.k = "nan" THEN FNaN
    ELSE IF a.k = "inf" \/ b.k = "inf"
         THEN (IF FIsZero(a) \/ FIsZero(b) THEN FNaN ELSE FInf(Sign(a.n) * Sign(b.n)))
    ELSE FRat(a.n * b.n, a.d * b.d)

\* lf / rf for rf # 0.0 (the only case the code evaluates)
FDiv(a, b) ==
    IF a.k = "nan" \/ b.k = "nan" THEN FNaN
    ELSE IF a.k = "inf" THEN (IF b.k = "inf" THEN FNaN ELSE FInf(a.n * Sign(b.n)))
    ELSE IF b.k = "inf" THEN FZero
    ELSE IF b.n = 0 THEN (IF a.n = 0 THEN FNaN ELSE FInf(Sign(a.n)))
    ELSE FRat(a.n * b.d, a.d * b.n)

\* lf % rf: IEEE fmod, NaN when the divisor is zero or the dividend is infinite
FMod(a, b) ==
    IF a.k = "nan" \/ b.k = "nan" THEN FNaN
    ELSE IF a.k = "inf" THEN FNaN
    ELSE IF b.k = "inf" THEN a
    ELSE IF b.n = 0 THEN FNaN
    ELSE LET q == TruncDiv(a.n * b.d, a.d * b.n)
         IN  FRat(a.n * b.d - q * b.n * a.d, a.d * b.d)

\* -1, 0, 1 for ordered operands; 2 when either is NaN (every comparison but != is false)
FCmp(a, b) ==
    IF a.k = "nan" \/ b.k = "nan" THEN 2
    ELSE IF a.k = "inf" THEN (IF b.k = "inf" /\ b.n = a.n THEN 0 ELSE a.n)
    ELSE IF b.k = "inf" THEN -b.n
    ELSE Sign(a.n * b.d - b.n * a.d)

is_truthy(v) ==
    CASE v.t = "Bool" -> v.b
      [] v.t = "Int" -> v.i # 0
      [] v.t = "Float" -> ~FIsZero(v.f) /\ v.f.k # "nan"
      [] v.t = "String" -> v.s # ""
      [] v.t = "None" -> FALSE
      [] v.t = "Object" -> TRUE

type_name(v) ==
    CASE v.t = "Bool" -> "bool"
      [] v.t = "Int" -> "int"
      [] v.t = "Float" -> "float"
      [] v.t = "String" -> "string"
      [] v.t = "None" -> "none"
      [] v.t = "Object" -> "object"

(***************************************************************************)
(* dispatcher.rs: default arithmetic and comparison                        *)
(***************************************************************************)
\* two's complement wrap of a mathematical integer into the i64 range
Wrap(x) == ((x - IntMin) % (2 ^ IntBits)) + IntMin

\* `l + r`, `l - r`, `l * r` on i64: the value when it fits; on overflow the
\* build decides (overflow checks on: panic, off: wrapping)
IntArith(x) ==
    IF x >= IntMin /\ x <= IntMax THEN {Ok(VInt(x))}
    ELSE {Ok(VInt(Wrap(x))), Panic("attempt to compute with overflow")}

IsNumeric(v) == v.t \in {"Int", "Float"}

Widen(v) == IF v.t = "Float" THEN v.f ELSE FInt(v.i)

binary_op_default(op, left, right) ==
    IF left.t = "Int" /\ right.t = "Int" THEN
        LET l == left.i
            r == right.i
        IN  CASE op = "Add" -> IntArith(l + r)
              [] op = "Sub" -> IntArith(l - r)
              [] op = "Mul" -> IntArith(l * r)
              [] op = "Div" ->
                    IF r = 0 THEN {Err("Division by zero")}
                    ELSE IF l = IntMin /\ r = -1 THEN {Panic("attempt to divide with overflow")}
                    ELSE {Ok(VInt(TruncDiv(l, r)))}
              [] op = "Mod" ->
                    IF r = 0 THEN {Err("Modulo by zero")}
                    ELSE IF l = IntMin /\ r = -1
                         THEN {Panic("attempt to calculate the remainder with overflow")}
                    ELSE {Ok(VInt(TruncRem(l, r)))}
    ELSE IF IsNumeric(left) /\ IsNumeric(right) THEN
        LET lf == Widen(left)
            rf == Widen(right)
        IN  CASE op = "Add" -> {Ok(VFloat(FAdd(lf, rf)))}
              [] op = "Sub" -> {Ok(VFloat(FSub(lf, rf)))}
              [] op = "Mul" -> {Ok(VFloat(FMul(lf, rf)))}
              [] op = "Div" ->
                    IF FIsZero(rf) THEN {Err("Division by zero")}
                    ELSE {Ok(VFloat(FDiv(lf, rf)))}
              [] op = "Mod" -> {Ok(VFloat(FMod(lf, rf)))}
    ELSE IF left.t = "String" /\ right.t = "String" /\ op = "Add" THEN
        {Ok(VString(left.s \o right.s))}
    ELSE {Err("Cannot perform " \o op \o " on " \o type_name(left) \o " and " \o type_name(right))}

\* byte order of the characters that occur in the model's strings (ASCII order)
CharOrder == " $.0123456789@_abcdefghijklmnopqrstuvwxyz"

CharRank(c) ==
    IF \E i \in 1..Len(CharOrder) : SubSeq(CharOrder, i, i) = c
    THEN CHOOSE i \in 1..Len(CharOrder) : SubSeq(CharOrder, i, i) = c
    ELSE 0

\* -1, 0, 1: `l.cmp(r)` on str (lexicographic on bytes)
RECURSIVE StrCmp(_, _)
StrCmp(l, r) ==
    IF l = "" THEN (IF r = "" THEN 0 ELSE -1)
    ELSE IF r = "" THEN 1
    ELSE LET cl == CharRank(SubSeq(l, 1, 1))
             cr == CharRank(SubSeq(r, 1, 1))
         IN  IF cl # cr THEN Sign(cl - cr)
             ELSE StrCmp(SubSeq(l, 2, Len(l)), SubSeq(r, 2, Len(r)))

\* the six comparisons on an ordering result c (2 = unordered, NaN)
CmpHolds(op, c) ==
    CASE op = "Eq" -> c = 0
      [] op = "Ne" -> c # 0
      [] op = "Lt" -> c = -1
      [] op = "Gt" -> c = 1
      [] op = "Le" -> c \in {-1, 0}
      [] op = "Ge" -> c \in {0, 1}

\* comparison_op_default with None ordered below every value and Bool ordered
\* false < true
comparison_op_ordering_none(op, left, right) ==
    IF left.t = "Bool" /\ right.t = "Bool" THEN
        Ok(VBool(CmpHolds(op, Sign((IF left.b THEN 1 ELSE 0) - (IF right.b THEN 1 ELSE 0)))))
    ELSE IF left.t = "Int" /\ right.t = "Int" THEN
        Ok(VBool(CmpHolds(op, Sign(left.i - right.i))))
    ELSE IF IsNumeric(left) /\ IsNumeric(right) THEN
        Ok(VBool(CmpHolds(op, FCmp(Widen(left), Widen(right)))))
    ELSE IF left.t = "String" /\ right.t = "String" THEN
        Ok(VBool(CmpHolds(op, StrCmp(left.s, right.s))))
    ELSE IF left.t = "None" /\ right.t = "None" THEN
        Ok(VBool(CmpHolds(op, 0)))
    ELSE IF left.t = "None" \/ right.t = "None" THEN
        Ok(VBool(CmpHolds(op, IF left.t = "None" THEN -1 ELSE 1)))
    ELSE Err("Cannot compare " \o type_name(left) \o " and " \o type_name(right))

comparison_op_default(op, left, right) ==
    IF left.t = "Bool" /\ right.t = "Bool" THEN
        CASE op = "Eq" -> Ok(VBool(left.b = right.b))
          [] op = "Ne" -> Ok(VBool(left.b # right.b))
          [] OTHER -> Err("Cannot compare bools with " \o op)
    ELSE IF left.t = "Int" /\ right.t = "Int" THEN
        Ok(VBool(CmpHolds(op, Sign(left.i - right.i))))
    ELSE IF IsNumeric(left) /\ IsNumeric(right) THEN
        Ok(VBool(CmpHolds(op, FCmp(Widen(left), Widen(right)))))
    ELSE IF left.t = "String" /\ right.t = "String" THEN
        Ok(VBool(CmpHolds(op, StrCmp(left.s, right.s))))
    ELSE IF left.t = "None" /\ right.t = "None" THEN
        CASE op = "Eq" -> Ok(VBool(TRUE))
          [] op = "Ne" -> Ok(VBool(FALSE))
          [] OTHER -> Err("Cannot order-compare None values")
    ELSE IF left.t = "None" \/ right.t = "None" THEN
        CASE op = "Eq" -> Ok(VBool(FALSE))
          [] op = "Ne" -> Ok(VBool(TRUE))
          [] OTHER -> Err("Cannot order-compare with None")
    ELSE Err("Cannot compare " \o type_name(left) \o " and " \o type_name(right))

(***************************************************************************)
(* opcodes.rs                                                              *)
(***************************************************************************)
OpPushConst == 1

OpPop == 2

OpDup == 3

OpLoadVar == 16

OpStoreVar == 17

OpAdd == 32

OpSub == 33

OpMul == 34

OpDiv == 35

OpMod == 36

OpEq == 48

OpNe == 49

OpLt == 50

OpGt == 51

OpLe == 52

OpGe == 53

OpAnd == 64

OpOr == 65

OpNot == 66

OpGetAttr == 80

OpGetItem == 81

OpSetAttr == 82

OpCallFunc == 96

Opcodes ==
    {OpPushConst, OpPop, OpDup, OpLoadVar, OpStoreVar, OpAdd, OpSub, OpMul, OpDiv, OpMod,
     OpEq, OpNe, OpLt, OpGt, OpLe, OpGe, OpAnd, OpOr, OpNot, OpGetAttr, OpGetItem,
     OpSetAttr, OpCallFunc}

from_u8(byte) == IF byte \in Opcodes THEN Ok(byte) ELSE Err("Unknown opcode")

ArithName(op) ==
    CASE op = OpAdd -> "Add" [] op = OpSub -> "Sub" [] op = OpMul -> "Mul"
      [] op = OpDiv -> "Div" [] op = OpMod -> "Mod"

CompareName(op) ==
    CASE op = OpEq -> "Eq" [] op = OpNe -> "Ne" [] op = OpLt -> "Lt"
      [] op = OpGt -> "Gt" [] op = OpLe -> "Le" [] op = OpGe -> "Ge"

(***************************************************************************)
(* constant_pool.rs: a pool is a sequence of constants [k, ...]; indices   *)
(* are 0-based u16 as in the bytecode                                      *)
(***************************************************************************)
CInt(i) == [k |-> "Int", i |-> i]

CFloat(f) == [k |-> "Float", f |-> f]

CString(s) == [k |-> "String", s |-> s]

CBool(b) == [k |-> "Bool", b |-> b]

CNone == [k |-> "None"]

CIdentifier(s) == [k |-> "Identifier", s |-> s]

CFieldName(s) == [k |-> "FieldName", s |-> s]

CFunctionName(s) == [k |-> "FunctionName", s |-> s]

\* as_value turning a name constant into an opaque value instead of an error
as_value_opaque(c) ==
    IF c.k \in {"Identifier", "FieldName", "FunctionName"} THEN Ok(VObject(c.s))
    ELSE CASE c.k = "Int" -> Ok(VInt(c.i))
           [] c.k = "Float" -> Ok(VFloat(c.f))
           [] c.k = "String" -> Ok(VString(c.s))
           [] c.k = "Bool" -> Ok(VBool(c.b))
           [] c.k = "None" -> Ok(VNone)

as_value(c) ==
    CASE c.k = "Int" -> Ok(VInt(c.i))
      [] c.k = "Float" -> Ok(VFloat(c.f))
      [] c.k = "String" -> Ok(VString(c.s))
      [] c.k = "Bool" -> Ok(VBool(c.b))
      [] c.k = "None" -> Ok(VNone)
      [] OTHER -> Err("Cannot convert constant to Value (not a literal)")

as_string(c) ==
    IF c.k \in {"Identifier", "FieldName", "FunctionName", "String"} THEN Ok(c.s)
    ELSE Err("Constant is not a string")

pool_get(pool, index) ==
    IF index < Len(pool) THEN Ok(pool[index + 1])
    ELSE Err("Constant pool index out of bounds")

get_value(pool, index) ==
    LET c == pool_get(pool, index) IN IF c.r = "ok" THEN as_value(c.v) ELSE c

get_string(pool, index) ==
    LET c == pool_get(pool, index) IN IF c.r = "ok" THEN as_string(c.v) ELSE c

(***************************************************************************)
(* Maps (HashMap<String, _>, Python dicts) are functions on a set of keys  *)
(***************************************************************************)
EmptyMap == [x \in {} |-> x]

MapPut(m, k, v) == (k :> v) @@ m

None_ == [some |-> FALSE]

Some(x) == [some |-> TRUE, v |-> x]

StartsWith(s, p) == Len(s) >= Len(p) /\ SubSeq(s, 1, Len(p)) = p

Digit(d) == SubSeq("0123456789", d + 1, d + 1)

RECURSIVE NatToStr(_)
NatToStr(n) == IF n < 10 THEN Digit(n) ELSE NatToStr(n \div 10) \o Digit(n % 10)

\* format!("{}", i) for an integer
IntToStr(i) == IF i < 0 THEN "-" \o NatToStr(-i) ELSE NatToStr(i)

IsDigitChar(c) == \E d \in 0..9 : Digit(d) = c

RECURSIVE StrToNat(_, _)
StrToNat(s, acc) ==
    IF s = "" THEN acc
    ELSE StrToNat(SubSeq(s, 2, Len(s)),
                  10 * acc + (CHOOSE d \in 0..9 : Digit(d) = SubSeq(s, 1, 1)))

\* `s.parse::<usize>()` for the digit strings of the model (at most 4 digits)
parse_usize(s) ==
    IF s # "" /\ Len(s) <= 4 /\ \A j \in 1..Len(s) : IsDigitChar(SubSeq(s, j, j))
    THEN Ok(StrToNat(s, 0))
    ELSE Err("invalid digit found in string")

\* fractional digits of num/den (0 <= num < den), at most `fuel` of them
RECURSIVE FracDigits(_, _, _)
FracDigits(num, den, fuel) ==
    IF num = 0 \/ fuel = 0 THEN ""
    ELSE Digit((10 * num) \div den) \o FracDigits((10 * num) % den, den, fuel - 1)

\* format!("{}", f) for an f64
FloatToStr(f) ==
    IF f.k = "nan" THEN "NaN"
    ELSE IF f.k = "inf" THEN (IF f.n < 0 THEN "-inf" ELSE "inf")
    ELSE LET a == Abs(f.n)
             whole == a \div f.d
             frac == FracDigits(a % f.d, f.d, 6)
         IN  (IF f.n < 0 THEN "-" ELSE "") \o NatToStr(whole)
             \o (IF frac = "" THEN "" ELSE "." \o frac)

\* impl fmt::Display for Value
Display(v) ==
    CASE v.t = "Bool" -> IF v.b THEN "true" ELSE "false"
      [] v.t = "Int" -> IntToStr(v.i)
      [] v.t = "Float" -> FloatToStr(v.f)
      [] v.t = "String" -> v.s
      [] v.t = "None" -> "None"
      [] v.t = "Object" -> "<object>"

\* `f as i64`: truncation toward zero, saturating, NaN to 0
FloatAsInt(f) ==
    IF f.k = "nan" THEN 0
    ELSE IF f.k = "inf" THEN (IF f.n < 0 THEN IntMin ELSE IntMax)
    ELSE LET q == TruncDiv(f.n, f.d)
         IN  IF q < IntMin THEN IntMin ELSE IF q > IntMax THEN IntMax ELSE q

as_int(v) ==
    CASE v.t = "Int" -> Ok(v.i)
      [] v.t = "Float" -> Ok(FloatAsInt(v.f))
      [] v.t = "Bool" -> Ok(IF v.b THEN 1 ELSE 0)
      [] OTHER -> Err("Cannot convert to int")

as_float(v) ==
    CASE v.t = "Float" -> Ok(v.f)
      [] v.t = "Int" -> Ok(FInt(v.i))
      [] v.t = "Bool" -> Ok(IF v.b THEN FInt(1) ELSE FInt(0))
      [] OTHER -> Err("Cannot convert to float")

(***************************************************************************)
(* capture()/send() event construction, shared by MockDispatcher           *)
(* (executor.rs tests) and PythonDispatcher                                *)
(***************************************************************************)
\* the manual clone in the capture arms: objects cannot be cloned
cloned_manually(v) == IF v.t = "Object" THEN VNone ELSE v

\* args.len() % 2 == 0 && args.iter().step_by(2).all(String)
is_named(args) ==
    Len(args) % 2 = 0 /\ \A j \in 1..Len(args) : (j % 2 = 1) => args[j].t = "String"

\* data.insert(key, value) for i in 0, 2, ..: a later pair overrides an earlier one
RECURSIVE named_data(_, _, _)
named_data(args, j, data) ==
    IF j > Len(args) THEN data
    ELSE named_data(args, j + 2, MapPut(data, args[j].s, cloned_manually(args[j + 1])))

RECURSIVE positional_data(_, _, _)
positional_data(args, j, data) ==
    IF j > Len(args) THEN data
    ELSE positional_data(args, j + 1,
                         MapPut(data, "arg" \o IntToStr(j - 1), cloned_manually(args[j])))

capture_data(args) ==
    IF is_named(args) THEN named_data(args, 1, EmptyMap)
    ELSE positional_data(args, 1, EmptyMap)

\* a dispatcher operation yields a set of outcomes [res, disp]
D(res, disp) == [res |-> res, disp |-> disp]

(***************************************************************************)
(* executor.rs (tests): MockDispatcher                                     *)
(***************************************************************************)
MockDispatcher_new ==
    [kind |-> "mock",
     variables |-> [test_var |-> VInt(42), count |-> VInt(100),
                    price |-> VFloat(FRat(1999, 100)), name |-> VString("test"),
                    is_active |-> VBool(TRUE), is_enabled |-> VBool(FALSE)],
     captures |-> <<>>]

Mock_load_variable(d, name) ==
    IF name \in DOMAIN d.variables
    THEN {D(Ok(cloned_manually(d.variables[name])), d)}
    ELSE {D(Err("Unknown variable: " \o name), d)}

Mock_store_variable(d, name, value) ==
    {D(Ok(Unit), [d EXCEPT !.variables = MapPut(@, name, value)])}

Mock_get_attribute(d, obj, attr) ==
    {D(Ok(CASE attr = "length" -> VInt(10)
            [] attr = "status" -> VString("ok")
            [] OTHER -> VNone), d)}

Mock_set_attribute(d, obj, attr, value) == {D(Ok(Unit), d)}

Mock_get_item(d, obj, key) == {D(Ok(VInt(42)), d)}

Mock_call_function(d, name, args) ==
    CASE name \in {"capture", "send"} ->
            {D(Ok(VNone), [d EXCEPT !.captures = Append(@, capture_data(args))])}
      [] name = "test_func" -> {D(Ok(VInt(100)), d)}
      [] name = "add" ->
            IF Len(args) # 2 THEN {D(Err("add() requires 2 arguments"), d)}
            ELSE IF args[1].t = "Int" /\ args[2].t = "Int"
                 THEN {D(res, d) : res \in IntArith(args[1].i + args[2].i)}
            ELSE {D(Err("add() requires int arguments"), d)}
      [] OTHER -> {D(Err("Unknown function: " \o name), d)}

(***************************************************************************)
(* Host objects seen through PyO3.  A Python object is                     *)
(*   [py |-> "bool", b], [py |-> "int", i], [py |-> "float", f],           *)
(*   [py |-> "str", s], [py |-> "none"], [py |-> "tuple", items],          *)
(*   [py |-> "dict", items] (string keys), [py |-> "obj", attrs].          *)
(***************************************************************************)
PyBool(b) == [py |-> "bool", b |-> b]

PyInt(i) == [py |-> "int", i |-> i]

PyFloat(f) == [py |-> "float", f |-> f]

PyStr(s) == [py |-> "str", s |-> s]

PyNone == [py |-> "none"]

PyTuple(items) == [py |-> "tuple", items |-> items]

PyDict(items) == [py |-> "dict", items |-> items]

PyObj(attrs) == [py |-> "obj", attrs |-> attrs]

\* Value::Object payloads: the request store proxy or a Python reference
RequestStoreProxy == [kind |-> "proxy"]

PyRef(obj) == [kind |-> "py", obj |-> obj]

py_to_value(obj) ==
    CASE obj.py = "bool" -> VBool(obj.b)
      [] obj.py = "int" ->
            IF obj.i >= IntMin /\ obj.i <= IntMax THEN VInt(obj.i) ELSE VFloat(FInt(obj.i))
      [] obj.py = "float" -> VFloat(obj.f)
      [] obj.py = "str" -> VString(obj.s)
      [] obj.py = "none" -> VNone
      [] OTHER -> VObject(PyRef(obj))

value_to_py(v) ==
    CASE v.t = "Bool" -> Ok(PyBool(v.b))
      [] v.t = "Int" -> Ok(PyInt(v.i))
      [] v.t = "Float" -> Ok(PyFloat(v.f))
      [] v.t = "String" -> Ok(PyStr(v.s))
      [] v.t = "None" -> Ok(PyNone)
      [] v.t = "Object" ->
            IF v.o.kind = "py" THEN Ok(v.o.obj)
            ELSE Err("Failed to downcast Object to Py<PyAny>")

\* obj.getattr(attr) on the host
Py_getattr(obj, attr) ==
    IF obj.py = "obj" /\ attr \in DOMAIN obj.attrs THEN Ok(obj.attrs[attr])
    ELSE Err("AttributeError")

\* obj[key] on the host: tuple and str by integer index, dict by string key
Py_getitem(obj, key) ==
    CASE obj.py = "tuple" /\ key.py = "int" ->
            LET n == Len(obj.items)
                j == IF key.i < 0 THEN key.i + n ELSE key.i
            IN  IF j >= 0 /\ j < n THEN Ok(obj.items[j + 1]) ELSE Err("IndexError")
      [] obj.py = "str" /\ key.py = "int" ->
            LET n == Len(obj.s)
                j == IF key.i < 0 THEN key.i + n ELSE key.i
            IN  IF j >= 0 /\ j < n THEN Ok(PyStr(SubSeq(obj.s, j + 1, j + 1)))
                ELSE Err("IndexError")
      [] obj.py = "dict" /\ key.py = "str" ->
            IF key.s \in DOMAIN obj.items THEN Ok(obj.items[key.s]) ELSE Err("KeyError")
      [] OTHER -> Err("TypeError")

\* len(obj) on the host
Py_len(obj) ==
    CASE obj.py = "tuple" -> Ok(Len(obj.items))
      [] obj.py = "str" -> Ok(Len(obj.s))
      [] obj.py = "dict" -> Ok(Cardinality(DOMAIN obj.items))
      [] OTHER -> Err("TypeError")

\* builtins reachable through the fallback arm of call_function
Py_builtin(name, args) ==
    IF name = "abs" THEN
        IF Len(args) = 1 /\ args[1].py = "int" THEN Ok(PyInt(Abs(args[1].i)))
        ELSE IF Len(args) = 1 /\ args[1].py = "float" /\ args[1].f.k # "nan"
             THEN Ok(PyFloat([args[1].f EXCEPT !.n = Abs(@)]))
        ELSE Err("TypeError")
    ELSE Err("Function not found")

(***************************************************************************)
(* python_dispatcher.rs: PythonDispatcher                                  *)
(***************************************************************************)
PythonDispatcher_new_entry(locals, globals, store) ==
    [kind |-> "python", is_exit |-> FALSE, retval |-> None_, exception |-> None_,
     locals |-> locals, globals |-> globals, store |-> store, captures |-> <<>>]

PythonDispatcher_new_exit(locals, globals, retval, exception, store) ==
    [kind |-> "python", is_exit |-> TRUE, retval |-> retval, exception |-> exception,
     locals |-> locals, globals |-> globals, store |-> store, captures |-> <<>>]

get_args(d) ==
    py_to_value(IF "args" \in DOMAIN d.locals THEN d.locals["args"] ELSE PyTuple(<<>>))

get_arg_n(d, n) ==
    IF "args" \in DOMAIN d.locals /\ d.locals["args"].py = "tuple"
       /\ n < Len(d.locals["args"].items)
    THEN Ok(py_to_value(d.locals["args"].items[n + 1]))
    ELSE Err("Argument " \o IntToStr(n) \o " not found")

Python_load_variable(d, name) ==
    IF name = "$req" \/ name = "$request" THEN {D(Ok(VObject(RequestStoreProxy)), d)}
    ELSE CASE name = "args" -> {D(Ok(get_args(d)), d)}
      [] name = "kwargs" ->
            {D(Ok(py_to_value(IF "kwargs" \in DOMAIN d.locals THEN d.locals["kwargs"]
                              ELSE PyDict(EmptyMap))), d)}
      [] name = "retval" ->
            IF ~d.is_exit THEN {D(Err("retval only available in exit probes"), d)}
            ELSE IF ~d.retval.some THEN {D(Err("No return value"), d)}
            ELSE {D(Ok(py_to_value(d.retval.v)), d)}
      [] name = "exception" ->
            IF ~d.is_exit THEN {D(Err("exception only available in exit probes"), d)}
            ELSE IF d.exception.some THEN {D(Ok(py_to_value(d.exception.v)), d)}
            ELSE {D(Ok(VNone), d)}
      [] name = "self" ->
            IF "self" \in DOMAIN d.locals THEN {D(Ok(py_to_value(d.locals["self"])), d)}
            ELSE {D(Err("'self' not found"), d)}
      [] name = "locals" -> {D(Ok(py_to_value(PyDict(d.locals))), d)}
      [] name = "globals" -> {D(Ok(py_to_value(PyDict(d.globals))), d)}
      [] OTHER ->
            IF StartsWith(name, "arg") /\ parse_usize(SubSeq(name, 4, Len(name))).r = "ok"
            THEN {D(get_arg_n(d, parse_usize(SubSeq(name, 4, Len(name))).v), d)}
            ELSE IF name \in DOMAIN d.locals THEN {D(Ok(py_to_value(d.locals[name])), d)}
            ELSE {D(Err("Variable " \o name \o " not found"), d)}

Python_store_variable(d, name, value) ==
    {D(Err("Cannot store to variable " \o name \o " (use SetAttr for $req.* assignments)"), d)}

IsProxy(obj) == obj.t = "Object" /\ obj.o.kind = "proxy"

Python_get_attribute(d, obj, attr) ==
    IF IsProxy(obj) THEN
        \* store.get(attr) returns None when the key is not set
        {D(Ok(py_to_value(IF attr \in DOMAIN d.store THEN d.store[attr] ELSE PyNone)), d)}
    ELSE LET po == value_to_py(obj) IN
         IF po.r # "ok" THEN {D(po, d)}
         ELSE LET a == Py_getattr(po.v, attr) IN
              IF a.r = "ok" THEN {D(Ok(py_to_value(a.v)), d)}
              ELSE {D(Err("Failed to get attribute " \o attr), d)}

Python_set_attribute(d, obj, attr, value) ==
    IF IsProxy(obj) THEN
        LET pv == value_to_py(value) IN
        IF pv.r # "ok" THEN {D(pv, d)}
        ELSE {D(Ok(Unit), [d EXCEPT !.store = MapPut(@, attr, pv.v)])}
    ELSE {D(Err("Cannot set attribute " \o attr \o " on non-request object"), d)}

Python_get_item(d, obj, key) ==
    LET po == value_to_py(obj) IN
    IF po.r # "ok" THEN {D(po, d)}
    ELSE LET pk == value_to_py(key) IN
         IF pk.r # "ok" THEN {D(pk, d)}
         ELSE LET it == Py_getitem(po.v, pk.v) IN
              IF it.r = "ok" THEN {D(Ok(py_to_value(it.v)), d)}
              ELSE {D(Err("Failed to get item"), d)}

\* SystemTime::now() as seconds, and the hash-derived rand(): values of the host clock
ClockValues == {FInt(1000), FRat(2001, 2)}

RandValues == {FZero, FRat(1, 2), FInt(1)}

RECURSIVE values_to_py(_, _, _)
values_to_py(args, j, acc) ==
    IF j > Len(args) THEN Ok(acc)
    ELSE LET p == value_to_py(args[j]) IN
         IF p.r # "ok" THEN p ELSE values_to_py(args, j + 1, Append(acc, p.v))

Python_call_function(d, name, args) ==
    CASE name = "timestamp" -> {D(Ok(VFloat(f)), d) : f \in ClockValues}
      [] name = "rand" -> {D(Ok(VFloat(f)), d) : f \in RandValues}
      [] name = "len" ->
            IF Len(args) # 1 THEN {D(Err("len() takes 1 argument"), d)}
            ELSE LET po == value_to_py(args[1]) IN
                 IF po.r # "ok" THEN {D(po, d)}
                 ELSE LET n == Py_len(po.v) IN
                      IF n.r = "ok" THEN {D(Ok(VInt(n.v)), d)} ELSE {D(Err("len() failed"), d)}
      [] name \in {"str", "int", "float"} ->
            IF Len(args) # 1 THEN {D(Err(name \o "() takes 1 argument"), d)}
            ELSE (CASE name = "str" -> {D(Ok(VString(Display(args[1]))), d)}
                    [] name = "int" ->
                         LET x == as_int(args[1]) IN
                         {D(IF x.r = "ok" THEN Ok(VInt(x.v)) ELSE x, d)}
                    [] name = "float" ->
                         LET x == as_float(args[1]) IN
                         {D(IF x.r = "ok" THEN Ok(VFloat(x.v)) ELSE x, d)})
      [] name \in {"capture", "send"} ->
            {D(Ok(VNone), [d EXCEPT !.captures = Append(@, capture_data(args))])}
      [] OTHER ->
            LET pa == values_to_py(args, 1, <<>>) IN
            IF name # "abs" THEN {D(Err("Function " \o name \o " not found"), d)}
            ELSE IF pa.r # "ok" THEN {D(pa, d)}
            ELSE LET res == Py_builtin(name, pa.v) IN
                 IF res.r = "ok" THEN {D(Ok(py_to_value(res.v)), d)}
                 ELSE {D(Err("Failed to call " \o name), d)}

(***************************************************************************)
(* dispatcher.rs: the Dispatcher trait, resolved on the implementation     *)
(***************************************************************************)
load_variable(d, name) ==
    IF d.kind = "python" THEN Python_load_variable(d, name) ELSE Mock_load_variable(d, name)

store_variable(d, name, value) ==
    IF d.kind = "python" THEN Python_store_variable(d, name, value)
    ELSE Mock_store_variable(d, name, value)

get_attribute(d, obj, attr) ==
    IF d.kind = "python" THEN Python_get_attribute(d, obj, attr)
    ELSE Mock_get_attribute(d, obj, attr)

set_attribute(d, obj, attr, value) ==
    IF d.kind = "python" THEN Python_set_attribute(d, obj, attr, value)
    ELSE Mock_set_attribute(d, obj, attr, value)

get_item(d, obj, key) ==
    IF d.kind = "python" THEN Python_get_item(d, obj, key) ELSE Mock_get_item(d, obj, key)

call_function(d, name, args) ==
    IF d.kind = "python" THEN Python_call_function(d, name, args)
    ELSE Mock_call_function(d, name, args)

\* neither implementation overrides the provided methods
binary_op(d, op, left, right) == {D(res, d) : res \in binary_op_default(op, left, right)}

comparison_op(d, op, left, right) == {D(comparison_op_default(op, left, right), d)}

take_captures(d) == [captures |-> d.captures, disp |-> [d EXCEPT !.captures = <<>>]]

(***************************************************************************)
(* executor.rs: Executor.  `ip` is the 0-based index `i` of execute; one   *)
(* iteration of the `while i < bytecode.len()` loop yields a set of        *)
(* outcomes [stack, ip, disp, st, err, log]: st = "run" when the loop      *)
(* continues, "err" when execute returns Err(err), "panic" when it         *)
(* unwinds.  log lists the dispatcher operations the iteration invoked.    *)
(***************************************************************************)
\* bytecode[i]: an index past the end is a panic
ByteAt(bytecode, i) ==
    IF i < Len(bytecode) THEN Ok(bytecode[i + 1]) ELSE Panic("index out of bounds")

read_u8(bytecode, i) ==
    IF i >= Len(bytecode) THEN Err("Unexpected end of bytecode while reading u8")
    ELSE LET b == ByteAt(bytecode, i) IN
         IF b.r # "ok" THEN b ELSE Ok([value |-> b.v, i |-> i + 1])

\* read_u16 whose bound check admits a single remaining byte
read_u16_short(bytecode, i) ==
    IF i + 1 > Len(bytecode) THEN Err("Unexpected end of bytecode while reading u16")
    ELSE LET lo == ByteAt(bytecode, i)
             hi == ByteAt(bytecode, i + 1)
         IN  IF lo.r # "ok" THEN lo
             ELSE IF hi.r # "ok" THEN hi
             ELSE Ok([value |-> lo.v + 256 * hi.v, i |-> i + 2])

read_u16(bytecode, i) ==
    IF i + 2 > Len(bytecode) THEN Err("Unexpected end of bytecode while reading u16")
    ELSE LET lo == ByteAt(bytecode, i)
             hi == ByteAt(bytecode, i + 1)
         IN  IF lo.r # "ok" THEN lo
             ELSE IF hi.r # "ok" THEN hi
             ELSE Ok([value |-> lo.v + 256 * hi.v, i |-> i + 2])

pop(stack) ==
    IF stack = <<>> THEN Err("Stack underflow")
    ELSE Ok([value |-> stack[Len(stack)], stack |-> SubSeq(stack, 1, Len(stack) - 1)])

Run(stack, i, d, log) ==
    [stack |-> stack, ip |-> i, disp |-> d, st |-> "run", err |-> "", log |-> log]

\* a failure after which the loop goes on with the next byte
Fail_continue(stack, i, d, log, res) == Run(stack, i + 1, d, log)

Fail(stack, i, d, log, res) ==
    [stack |-> stack, ip |-> i, disp |-> d, st |-> res.r, err |-> res.m, log |-> log]

\* a dispatcher operation invoked by the instruction at offset `at`, and whether it returned Ok
Call(at, op, name, ok) == [at |-> at, op |-> op, name |-> name, ok |-> ok]

\* Opcode::PushConst
ExecPushConst(stack, ip, bytecode, pool, d) ==
    LET index == read_u16(bytecode, ip + 1) IN
    IF index.r # "ok" THEN {Fail(stack, ip, d, <<>>, index)}
    ELSE LET value == get_value(pool, index.v.value) IN
         IF value.r # "ok" THEN {Fail(stack, ip, d, <<>>, value)}
         ELSE {Run(Append(stack, value.v), index.v.i, d, <<>>)}

\* Opcode::Pop
\* Pop that advances without removing the top of the stack
ExecPop_keep(stack, ip, bytecode, pool, d) == {Run(stack, ip + 1, d, <<>>)}

ExecPop(stack, ip, bytecode, pool, d) ==
    LET p == pop(stack) IN
    IF p.r # "ok" THEN {Fail(stack, ip, d, <<>>, p)}
    ELSE {Run(p.v.stack, ip + 1, d, <<>>)}

\* Opcode::Dup
ExecDup(stack, ip, bytecode, pool, d) ==
    {Fail(stack, ip, d, <<>>, Err("DUP instruction not yet implemented"))}

\* Opcode::LoadVar
ExecLoadVar(stack, ip, bytecode, pool, d) ==
    LET index == read_u16(bytecode, ip + 1) IN
    IF index.r # "ok" THEN {Fail(stack, ip, d, <<>>, index)}
    ELSE LET name == get_string(pool, index.v.value) IN
         IF name.r # "ok" THEN {Fail(stack, ip, d, <<>>, name)}
         ELSE LET log(ok) == <<Call(ip, "load_variable", name.v, ok)>> IN
              {IF o.res.r = "ok" THEN Run(Append(stack, o.res.v), index.v.i, o.disp, log(TRUE))
               ELSE Fail(stack, ip, o.disp, log(FALSE), o.res) : o \in load_variable(d, name.v)}

\* Opcode::StoreVar
ExecStoreVar(stack, ip, bytecode, pool, d) ==
    LET index == read_u16(bytecode, ip + 1) IN
    IF index.r # "ok" THEN {Fail(stack, ip, d, <<>>, index)}
    ELSE LET name == get_string(pool, index.v.value) IN
         IF name.r # "ok" THEN {Fail(stack, ip, d, <<>>, name)}
         ELSE LET value == pop(stack) IN
              IF value.r # "ok" THEN {Fail(stack, ip, d, <<>>, value)}
              ELSE LET log(ok) == <<Call(ip, "store_variable", name.v, ok)>> IN
                   {IF o.res.r = "ok" THEN Run(value.v.stack, index.v.i, o.disp, log(TRUE))
                    ELSE Fail(value.v.stack, ip, o.disp, log(FALSE), o.res)
                    : o \in store_variable(d, name.v, value.v.value)}

\* Executor::binary_op and Executor::comparison_op
ExecBinary(stack, ip, bytecode, pool, d, arith) ==
    LET right == pop(stack) IN
    IF right.r # "ok" THEN {Fail(stack, ip, d, <<>>, right)}
    ELSE LET left == pop(right.v.stack) IN
         IF left.r # "ok" THEN {Fail(right.v.stack, ip, d, <<>>, left)}
         ELSE LET op == bytecode[ip + 1]
                  log(ok) == <<Call(ip, IF arith THEN "binary_op" ELSE "comparison_op",
                                IF arith THEN ArithName(op) ELSE CompareName(op), ok)>>
                  outs == IF arith
                          THEN binary_op(d, ArithName(op), left.v.value, right.v.value)
                          ELSE comparison_op(d, CompareName(op), left.v.value, right.v.value)
              IN  {IF o.res.r = "ok"
                   THEN Run(Append(left.v.stack, o.res.v), ip + 1, o.disp, log(TRUE))
                   ELSE Fail(left.v.stack, ip, o.disp, log(FALSE), o.res) : o \in outs}

\* And/Or that yield one of their operands instead of a Bool
ExecLogical_operand(stack, ip, bytecode, pool, d) ==
    LET right == pop(stack) IN
    IF right.r # "ok" THEN {Fail(stack, ip, d, <<>>, right)}
    ELSE LET left == pop(right.v.stack) IN
         IF left.r # "ok" THEN {Fail(right.v.stack, ip, d, <<>>, left)}
         ELSE LET first == IF bytecode[ip + 1] = OpAnd THEN ~is_truthy(left.v.value)
                           ELSE is_truthy(left.v.value)
              IN  {Run(Append(left.v.stack, IF first THEN left.v.value ELSE right.v.value),
                       ip + 1, d, <<>>)}

\* Opcode::And, Opcode::Or
ExecLogical(stack, ip, bytecode, pool, d) ==
    LET right == pop(stack) IN
    IF right.r # "ok" THEN {Fail(stack, ip, d, <<>>, right)}
    ELSE LET left == pop(right.v.stack) IN
         IF left.r # "ok" THEN {Fail(right.v.stack, ip, d, <<>>, left)}
         ELSE LET result == IF bytecode[ip + 1] = OpAnd
                            THEN is_truthy(left.v.value) /\ is_truthy(right.v.value)
                            ELSE is_truthy(left.v.value) \/ is_truthy(right.v.value)
              IN  {Run(Append(left.v.stack, VBool(result)), ip + 1, d, <<>>)}

\* Opcode::Not
ExecNot(stack, ip, bytecode, pool, d) ==
    LET value == pop(stack) IN
    IF value.r # "ok" THEN {Fail(stack, ip, d, <<>>, value)}
    ELSE {Run(Append(value.v.stack, VBool(~is_truthy(value.v.value))), ip + 1, d, <<>>)}

\* Opcode::GetAttr
ExecGetAttr(stack, ip, bytecode, pool, d) ==
    LET index == read_u16(bytecode, ip + 1) IN
    IF index.r # "ok" THEN {Fail(stack, ip, d, <<>>, index)}
    ELSE LET attr_name == get_string(pool, index.v.value) IN
         IF attr_name.r # "ok" THEN {Fail(stack, ip, d, <<>>, attr_name)}
         ELSE LET obj == pop(stack) IN
              IF obj.r # "ok" THEN {Fail(stack, ip, d, <<>>, obj)}
              ELSE LET log(ok) == <<Call(ip, "get_attribute", attr_name.v, ok)>> IN
                   {IF o.res.r = "ok"
                    THEN Run(Append(obj.v.stack, o.res.v), index.v.i, o.disp, log(TRUE))
                    ELSE Fail(obj.v.stack, ip, o.disp, log(FALSE), o.res)
                    : o \in get_attribute(d, obj.v.value, attr_name.v)}

\* Opcode::SetAttr
ExecSetAttr(stack, ip, bytecode, pool, d) ==
    LET index == read_u16(bytecode, ip + 1) IN
    IF index.r # "ok" THEN {Fail(stack, ip, d, <<>>, index)}
    ELSE LET attr_name == get_string(pool, index.v.value) IN
         IF attr_name.r # "ok" THEN {Fail(stack, ip, d, <<>>, attr_name)}
         ELSE LET value == pop(stack) IN
              IF value.r # "ok" THEN {Fail(stack, ip, d, <<>>, value)}
              ELSE LET obj == pop(value.v.stack) IN
                   IF obj.r # "ok" THEN {Fail(value.v.stack, ip, d, <<>>, obj)}
                   ELSE LET log(ok) == <<Call(ip, "set_attribute", attr_name.v, ok)>> IN
                        {IF o.res.r = "ok" THEN Run(obj.v.stack, index.v.i, o.disp, log(TRUE))
                         ELSE Fail(obj.v.stack, ip, o.disp, log(FALSE), o.res)
                         : o \in set_attribute(d, obj.v.value, attr_name.v, value.v.value)}

\* Opcode::GetItem
ExecGetItem(stack, ip, bytecode, pool, d) ==
    LET key == pop(stack) IN
    IF key.r # "ok" THEN {Fail(stack, ip, d, <<>>, key)}
    ELSE LET obj == pop(key.v.stack) IN
         IF obj.r # "ok" THEN {Fail(key.v.stack, ip, d, <<>>, obj)}
         ELSE LET log(ok) == <<Call(ip, "get_item", "", ok)>> IN
              {IF o.res.r = "ok" THEN Run(Append(obj.v.stack, o.res.v), ip + 1, o.disp, log(TRUE))
               ELSE Fail(obj.v.stack, ip, o.disp, log(FALSE), o.res)
               : o \in get_item(d, obj.v.value, key.v.value)}

\* Opcode::CallFunc
ExecCallFunc(stack, ip, bytecode, pool, d) ==
    LET name_index == read_u16(bytecode, ip + 1) IN
    IF name_index.r # "ok" THEN {Fail(stack, ip, d, <<>>, name_index)}
    ELSE LET arg_count == read_u8(bytecode, name_index.v.i) IN
         IF arg_count.r # "ok" THEN {Fail(stack, ip, d, <<>>, arg_count)}
         ELSE LET func_name == get_string(pool, name_index.v.value) IN
              IF func_name.r # "ok" THEN {Fail(stack, ip, d, <<>>, func_name)}
              ELSE IF Len(stack) < arg_count.v.value
                   THEN {Fail(stack, ip, d, <<>>, Err("Stack underflow: need more args"))}
              ELSE LET args_start == Len(stack) - arg_count.v.value
                       args == SubSeq(stack, args_start + 1, Len(stack))
                       rest == SubSeq(stack, 1, args_start)
                       log(ok) == <<Call(ip, "call_function", func_name.v, ok)>>
                   IN  {IF o.res.r = "ok"
                        THEN Run(Append(rest, o.res.v), arg_count.v.i, o.disp, log(TRUE))
                        ELSE Fail(rest, ip, o.disp, log(FALSE), o.res)
                        : o \in call_function(d, func_name.v, args)}

\* one iteration of the loop of Executor::execute, at i = ip < bytecode.len()
ExecInstr(stack, ip, bytecode, pool, d) ==
    LET opcode == from_u8(bytecode[ip + 1]) IN
    IF opcode.r # "ok" THEN {Fail(stack, ip, d, <<>>, opcode)}
    ELSE LET op == opcode.v IN
         CASE op = OpPushConst -> ExecPushConst(stack, ip, bytecode, pool, d)
           [] op = OpPop -> ExecPop(stack, ip, bytecode, pool, d)
           [] op = OpDup -> ExecDup(stack, ip, bytecode, pool, d)
           [] op = OpLoadVar -> ExecLoadVar(stack, ip, bytecode, pool, d)
           [] op = OpStoreVar -> ExecStoreVar(stack, ip, bytecode, pool, d)
           [] op \in {OpAdd, OpSub, OpMul, OpDiv, OpMod} ->
                ExecBinary(stack, ip, bytecode, pool, d, TRUE)
           [] op \in {OpEq, OpNe, OpLt, OpGt, OpLe, OpGe} ->
                ExecBinary(stack, ip, bytecode, pool, d, FALSE)
           [] op \in {OpAnd, OpOr} -> ExecLogical(stack, ip, bytecode, pool, d)
           [] op = OpNot -> ExecNot(stack, ip, bytecode, pool, d)
           [] op = OpGetAttr -> ExecGetAttr(stack, ip, bytecode, pool, d)
           [] op = OpSetAttr -> ExecSetAttr(stack, ip, bytecode, pool, d)
           [] op = OpGetItem -> ExecGetItem(stack, ip, bytecode, pool, d)
           [] op = OpCallFunc -> ExecCallFunc(stack, ip, bytecode, pool, d)

\* the exit of execute: Ok(self.stack.pop().unwrap_or(Value::None))
ExecFinish(stack) ==
    IF stack = <<>> THEN [value |-> VNone, stack |-> <<>>]
    ELSE [value |-> stack[Len(stack)], stack |-> SubSeq(stack, 1, Len(stack) - 1)]

(***************************************************************************)
(* parser/lexer.rs: TokenKind.  A source is the sequence of tokens the     *)
(* lexer yields for it (without spans); past the end the lexer keeps       *)
(* yielding Eof.                                                           *)
(***************************************************************************)
Tok(k) == [k |-> k]

TInt(i) == [k |-> "Int", i |-> i]

TFloat(f) == [k |-> "Float", f |-> f]

TString(s) == [k |-> "String", s |-> s]

TBool(b) == [k |-> "Bool", b |-> b]

TIdent(s) == [k |-> "Ident", s |-> s]

(***************************************************************************)
(* parser/lexer.rs: Lexer.  The lexer state is the source s and the        *)
(* 1-based position i of `current`; "" stands for `None` (end of input).   *)
(* Spans are not modelled.                                                 *)
(***************************************************************************)
CharAt(s, i) == IF i >= 1 /\ i <= Len(s) THEN SubSeq(s, i, i) ELSE ""

Letters == "abcdefghijklmnopqrstuvwxyzABCDEFGHIJKLMNOPQRSTUVWXYZ"

IsAlpha(c) == c # "" /\ \E j \in 1..Len(Letters) : SubSeq(Letters, j, j) = c

IsDigit(c) == c # "" /\ IsDigitChar(c)

\* ch.is_alphanumeric() || ch == '_'
IsIdentChar(c) == IsAlpha(c) \/ IsDigit(c) \/ c = "_"

RECURSIVE ScanDigits(_, _)
ScanDigits(s, i) == IF IsDigit(CharAt(s, i)) THEN ScanDigits(s, i + 1) ELSE i

RECURSIVE ScanIdent(_, _)
ScanIdent(s, i) == IF IsIdentChar(CharAt(s, i)) THEN ScanIdent(s, i + 1) ELSE i

RECURSIVE ScanLine(_, _)
ScanLine(s, i) == IF CharAt(s, i) \in {"", "\n"} THEN i ELSE ScanLine(s, i + 1)

RECURSIVE ScanBlock(_, _)
ScanBlock(s, i) ==
    IF CharAt(s, i) = "" THEN i
    ELSE IF CharAt(s, i) = "*" /\ CharAt(s, i + 1) = "/" THEN i + 2
    ELSE ScanBlock(s, i + 1)

RECURSIVE skip_whitespace_and_comments(_, _)
skip_whitespace_and_comments(s, i) ==
    LET c == CharAt(s, i) IN
    IF c \in {" ", "\t", "\r", "\n"} THEN skip_whitespace_and_comments(s, i + 1)
    ELSE IF c = "#" THEN skip_whitespace_and_comments(s, ScanLine(s, i + 1))
    ELSE IF c = "/" /\ CharAt(s, i + 1) = "*"
         THEN skip_whitespace_and_comments(s, ScanBlock(s, i + 2))
    ELSE i

LexOut(tok, i) == [tok |-> tok, i |-> i]

RECURSIVE Pow10(_)
Pow10(n) == IF n = 0 THEN 1 ELSE 10 * Pow10(n - 1)

\* value.parse::<i64>().unwrap_or(0) for a digit string
parse_i64(value) ==
    LET n == StrToNat(value, 0) IN IF n > IntMax THEN 0 ELSE n

\* value.parse::<f64>().unwrap_or(0.0) for digits [. digits] [e [sign] digits];
\* the f64 of the model overflows at an exponent of two digits
parse_f64(int_part, frac_part, has_exp, exp_neg, exp_digits) ==
    LET m == FRat(StrToNat(int_part \o frac_part, 0), Pow10(Len(frac_part))) IN
    IF ~has_exp THEN m
    ELSE IF exp_digits = "" THEN FZero
    ELSE IF Len(exp_digits) > 1
         THEN (IF exp_neg \/ FIsZero(m) THEN FZero ELSE FInf(1))
    ELSE IF exp_neg THEN FDiv(m, FInt(Pow10(StrToNat(exp_digits, 0))))
    ELSE FMul(m, FInt(Pow10(StrToNat(exp_digits, 0))))

lex_number(s, i) ==
    LET j1 == ScanDigits(s, i)
        frac == CharAt(s, j1) = "." /\ IsDigit(CharAt(s, j1 + 1))
        j2 == IF frac THEN ScanDigits(s, j1 + 1) ELSE j1
        has_exp == CharAt(s, j2) \in {"e", "E"}
        j3 == IF has_exp /\ CharAt(s, j2 + 1) \in {"+", "-"} THEN j2 + 2
              ELSE IF has_exp THEN j2 + 1 ELSE j2
        j4 == IF has_exp THEN ScanDigits(s, j3) ELSE j2
    IN  IF frac \/ has_exp
        THEN LexOut(TFloat(parse_f64(SubSeq(s, i, j1 - 1),
                                     IF frac THEN SubSeq(s, j1 + 1, j2 - 1) ELSE "",
                                     has_exp, has_exp /\ CharAt(s, j2 + 1) = "-",
                                     IF has_exp THEN SubSeq(s, j3, j4 - 1) ELSE "")), j4)
        ELSE LexOut(TInt(parse_i64(SubSeq(s, i, j1 - 1))), j1)

\* the loop of lex_string: [value, i] with i at the closing quote or the end
RECURSIVE lex_string_body(_, _, _, _)
lex_string_body(s, i, quote, value) ==
    LET c == CharAt(s, i) IN
    IF c = "" \/ c = quote THEN [value |-> value, i |-> i]
    ELSE IF c = "\\"
         THEN LET e == CharAt(s, i + 1) IN
              IF e = "" THEN [value |-> value, i |-> i + 1]
              ELSE lex_string_body(s, i + 2, quote,
                       value \o (CASE e = "n" -> "\n" [] e = "r" -> "\r"
                                   [] e = "t" -> "\t" [] OTHER -> e))
    ELSE lex_string_body(s, i + 1, quote, value \o c)

lex_string(s, i, quote) ==
    LET b == lex_string_body(s, i + 1, quote, "") IN
    LexOut(TString(b.value), IF CharAt(s, b.i) = quote THEN b.i + 1 ELSE b.i)

lex_ident(s, i) ==
    LET j == ScanIdent(s, i)
        value == SubSeq(s, i, j - 1)
    IN  LexOut(CASE value = "fn" -> Tok("Fn") [] value = "py" -> Tok("Py")
                 [] value = "entry" -> Tok("Entry") [] value = "exit" -> Tok("Exit")
                 [] value = "capture" -> Tok("Capture") [] value = "send" -> Tok("Send")
                 [] value = "sample" -> Tok("Sample") [] value = "True" -> TBool(TRUE)
                 [] value = "False" -> TBool(FALSE) [] value = "None" -> Tok("None")
                 [] OTHER -> TIdent(value), j)

\* lex_dollar_ident yielding its token without consuming the `$`
lex_dollar_ident_unconsumed(s, i) == LexOut(TIdent("$"), i)

lex_dollar_ident(s, i) ==
    LET j == ScanIdent(s, i + 1)
        value == SubSeq(s, i + 1, j - 1)
    IN  LexOut(CASE value = "req" -> Tok("Req") [] value = "request" -> Tok("Request")
                 [] OTHER -> TIdent("$" \o value), j)

\* a one- or two-character operator: `second` after `ch` gives `two`, else `one`
TwoChar(s, i, second, two, one) ==
    IF CharAt(s, i + 1) = second THEN LexOut(two, i + 2) ELSE LexOut(one, i + 1)

SingleCharKind(ch) ==
    CASE ch = "(" -> "LParen" [] ch = ")" -> "RParen" [] ch = "{" -> "LBrace"
      [] ch = "}" -> "RBrace" [] ch = "[" -> "LBracket" [] ch = "]" -> "RBracket"
      [] ch = ";" -> "Semi" [] ch = "," -> "Comma" [] ch = "." -> "Dot"
      [] ch = "%" -> "Percent" [] ch = ":" -> "Colon" [] ch = "+" -> "Plus"
      [] ch = "-" -> "Minus" [] ch = "*" -> "Star" [] ch = "/" -> "Slash"

next_token(s, i0) ==
    LET i == skip_whitespace_and_comments(s, i0)
        ch == CharAt(s, i)
    IN  CASE ch = "" -> LexOut(Tok("Eof"), i)
          [] ch \in {"(", ")", "{", "}", "[", "]", ";", ",", ".", "%", ":", "+", "-", "*", "/"} ->
                LexOut(Tok(SingleCharKind(ch)), i + 1)
          [] ch = "!" -> TwoChar(s, i, "=", Tok("NotEq"), Tok("Not"))
          [] ch = "=" -> TwoChar(s, i, "=", Tok("EqEq"), Tok("Eq"))
          [] ch = "<" -> TwoChar(s, i, "=", Tok("LtEq"), Tok("Lt"))
          [] ch = ">" -> TwoChar(s, i, "=", Tok("GtEq"), Tok("Gt"))
          [] ch = "&" -> TwoChar(s, i, "&", Tok("And"), TIdent("&"))
          [] ch = "|" -> TwoChar(s, i, "|", Tok("Or"), TIdent("|"))
          [] ch = "$" -> lex_dollar_ident(s, i)
          [] ch = "\"" \/ ch = "'" -> lex_string(s, i, ch)
          [] IsDigit(ch) -> lex_number(s, i)
          [] IsAlpha(ch) \/ ch = "_" -> lex_ident(s, i)
          [] OTHER -> LexOut(TIdent(ch), i + 1)

\* the tokens next_token yields before the first Eof
RECURSIVE Tokens(_, _)
Tokens(s, i) ==
    LET t == next_token(s, i) IN
    IF t.tok.k = "Eof" THEN <<>> ELSE <<t.tok>> \o Tokens(s, t.i)

(***************************************************************************)
(* parser/ast.rs (spans omitted)                                           *)
(***************************************************************************)
EInt(v) == [e |-> "Int", value |-> v]

EFloat(v) == [e |-> "Float", value |-> v]

EString(v) == [e |-> "String", value |-> v]

EBool(v) == [e |-> "Bool", value |-> v]

ENone == [e |-> "None"]

EIdent(name) == [e |-> "Ident", name |-> name]

ERequestVar(is_request, field) ==
    [e |-> "RequestVar", is_request |-> is_request, field |-> field]

EBinary(op, left, right) == [e |-> "Binary", op |-> op, left |-> left, right |-> right]

EUnary(op, expr) == [e |-> "Unary", op |-> op, expr |-> expr]

EFieldAccess(object, field) == [e |-> "FieldAccess", object |-> object, field |-> field]

EIndexAccess(object, index) == [e |-> "IndexAccess", object |-> object, index |-> index]

ECall(function, args) == [e |-> "Call", function |-> function, args |-> args]

SAssignment(is_request, field, value) ==
    [s |-> "Assignment", is_request |-> is_request, field |-> field, value |-> value]

SSample(spec) == [s |-> "Sample", spec |-> spec]

\* CaptureArgs::Positional(exprs): items are expressions;
\* CaptureArgs::Named(entries): items are [name, value]
SCapture(is_send, named, items) ==
    [s |-> "Capture", is_send |-> is_send, named |-> named, items |-> items]

NamedArg(name, value) == [name |-> name, value |-> value]

AstProbeSpec(provider, parts, probe_point) ==
    [provider |-> provider, module_function |-> parts, probe_point |-> probe_point]

AstProbe(spec, predicate, body) == [spec |-> spec, predicate |-> predicate, body |-> body]

(***************************************************************************)
(* parser/mod.rs: Parser.  The parser state is the token sequence T and    *)
(* the position pos of `current` (`peek` is pos + 1).  A parse function    *)
(* returns [r |-> "ok", v, pos] or [r |-> "err", kind, m].                 *)
(***************************************************************************)
POk(v, pos) == [r |-> "ok", v |-> v, pos |-> pos]

PErr(kind, m) == [r |-> "err", kind |-> kind, m |-> m]

Cur(T, pos) == IF pos <= Len(T) THEN T[pos] ELSE Tok("Eof")

check(T, pos, kind) == Cur(T, pos).k = kind

expect(T, pos, kind) ==
    IF check(T, pos, kind) THEN POk(Cur(T, pos), pos + 1)
    ELSE PErr("UnexpectedToken", "Expected " \o kind)

NoOp == [some |-> FALSE]

BinOp(op, prec) == [some |-> TRUE, op |-> op, prec |-> prec]

\* current_binary_op with the precedences of `||` and `&&` exchanged
current_binary_op_and_below_or(T, pos) ==
    LET k == Cur(T, pos).k IN
    CASE k = "Or" -> BinOp("Or", 2)
      [] k = "And" -> BinOp("And", 1)
      [] k = "EqEq" -> BinOp("Eq", 3)
      [] k = "NotEq" -> BinOp("NotEq", 3)
      [] k = "Lt" -> BinOp("Lt", 4)
      [] k = "Gt" -> BinOp("Gt", 4)
      [] k = "LtEq" -> BinOp("LtEq", 4)
      [] k = "GtEq" -> BinOp("GtEq", 4)
      [] k = "Plus" -> BinOp("Add", 5)
      [] k = "Minus" -> BinOp("Sub", 5)
      [] k = "Star" -> BinOp("Mul", 6)
      [] k = "Slash" -> BinOp("Div", 6)
      [] k = "Percent" -> BinOp("Mod", 6)
      [] OTHER -> NoOp

current_binary_op(T, pos) ==
    LET k == Cur(T, pos).k IN
    CASE k = "Or" -> BinOp("Or", 1)
      [] k = "And" -> BinOp("And", 2)
      [] k = "EqEq" -> BinOp("Eq", 3)
      [] k = "NotEq" -> BinOp("NotEq", 3)
      [] k = "Lt" -> BinOp("Lt", 4)
      [] k = "Gt" -> BinOp("Gt", 4)
      [] k = "LtEq" -> BinOp("LtEq", 4)
      [] k = "GtEq" -> BinOp("GtEq", 4)
      [] k = "Plus" -> BinOp("Add", 5)
      [] k = "Minus" -> BinOp("Sub", 5)
      [] k = "Star" -> BinOp("Mul", 6)
      [] k = "Slash" -> BinOp("Div", 6)
      [] k = "Percent" -> BinOp("Mod", 6)
      [] OTHER -> NoOp

\* a `/` that is taken as division at every nesting depth
current_binary_op_at_any_depth(T, pos, depth) == current_binary_op(T, pos)

\* current_binary_op_for_predicate taking '/' for the terminator at every depth
current_binary_op_slash_ends(T, pos, depth) ==
    IF Cur(T, pos).k = "Slash" THEN NoOp ELSE current_binary_op(T, pos)

current_binary_op_for_predicate(T, pos, depth) ==
    IF depth = 0 /\ Cur(T, pos).k = "Slash" THEN NoOp ELSE current_binary_op(T, pos)

parse_request_var_expr(T, pos) ==
    LET is_request == Cur(T, pos).k = "Request"
        dot == expect(T, pos + 1, "Dot")
    IN  IF dot.r # "ok" THEN dot
        ELSE LET field_tok == expect(T, dot.pos, "Ident") IN
             IF field_tok.r # "ok" THEN field_tok
             ELSE POk(ERequestVar(is_request, field_tok.v.s), field_tok.pos)

\* The expression methods of Parser call one another through parser_call,
\* which resolves the method named `method`; x is its expression, name or
\* argument-list parameter, if it has one.
RECURSIVE parser_call(_, _, _, _, _, _)

parse_expr(T, pos) == parser_call("parse_expr_with_precedence", T, pos, <<>>, 0, 0)

parse_expr_with_precedence(T, pos, min_precedence) ==
    LET u == parser_call("parse_unary_expr", T, pos, <<>>, 0, 0) IN
    IF u.r # "ok" THEN u
    ELSE LET left == parser_call("parse_postfix_expr", T, u.pos, u.v, 0, 0) IN
         IF left.r # "ok" THEN left
         ELSE parser_call("parse_binary_loop", T, left.pos, left.v, min_precedence, 0)

\* the `while let Some((op, precedence)) = self.current_binary_op()` loop
parse_binary_loop(T, pos, left, min_precedence) ==
    LET b == current_binary_op(T, pos) IN
    IF ~b.some THEN POk(left, pos)
    ELSE IF b.prec < min_precedence THEN POk(left, pos)
    ELSE LET right == parser_call("parse_expr_with_precedence", T, pos + 1, <<>>,
                                  b.prec + 1, 0)
         IN  IF right.r # "ok" THEN right
             ELSE parser_call("parse_binary_loop", T, right.pos,
                              EBinary(b.op, left, right.v), min_precedence, 0)

parse_unary_expr(T, pos) ==
    IF Cur(T, pos).k = "Not" THEN
        LET expr == parser_call("parse_unary_expr", T, pos + 1, <<>>, 0, 0) IN
        IF expr.r # "ok" THEN expr ELSE POk(EUnary("Not", expr.v), expr.pos)
    ELSE parser_call("parse_primary_expr", T, pos, <<>>, 0, 0)

parse_primary_expr(T, pos) ==
    LET tok == Cur(T, pos) IN
    CASE tok.k = "Int" -> POk(EInt(tok.i), pos + 1)
      [] tok.k = "Float" -> POk(EFloat(tok.f), pos + 1)
      [] tok.k = "String" -> POk(EString(tok.s), pos + 1)
      [] tok.k = "Bool" -> POk(EBool(tok.b), pos + 1)
      [] tok.k = "None" -> POk(ENone, pos + 1)
      [] tok.k \in {"Req", "Request"} ->
            parser_call("parse_request_var_expr", T, pos, <<>>, 0, 0)
      [] tok.k = "Ident" ->
            IF check(T, pos + 1, "LParen")
            THEN parser_call("parse_function_call", T, pos + 1, tok.s, 0, 0)
            ELSE POk(EIdent(tok.s), pos + 1)
      [] tok.k = "LParen" ->
            LET expr == parser_call("parse_expr_with_precedence", T, pos + 1, <<>>, 0, 0) IN
            IF expr.r # "ok" THEN expr
            ELSE LET close == expect(T, expr.pos, "RParen") IN
                 IF close.r # "ok" THEN close ELSE POk(expr.v, close.pos)
      [] OTHER -> PErr("Other", "Expected expression, found " \o tok.k)

parse_postfix_expr(T, pos, expr) ==
    CASE Cur(T, pos).k = "Dot" ->
            LET field_tok == expect(T, pos + 1, "Ident") IN
            IF field_tok.r # "ok" THEN field_tok
            ELSE parser_call("parse_postfix_expr", T, field_tok.pos,
                             EFieldAccess(expr, field_tok.v.s), 0, 0)
      [] Cur(T, pos).k = "LBracket" ->
            LET index == parser_call("parse_expr_with_precedence", T, pos + 1, <<>>, 0, 0) IN
            IF index.r # "ok" THEN index
            ELSE LET close == expect(T, index.pos, "RBracket") IN
                 IF close.r # "ok" THEN close
                 ELSE parser_call("parse_postfix_expr", T, close.pos,
                                  EIndexAccess(expr, index.v), 0, 0)
      [] OTHER -> POk(expr, pos)

\* the argument loop of parse_function_call
parse_call_args(T, pos, args) ==
    LET arg == parser_call("parse_expr_with_precedence", T, pos, <<>>, 0, 0) IN
    IF arg.r # "ok" THEN arg
    ELSE IF ~check(T, arg.pos, "Comma") THEN POk(Append(args, arg.v), arg.pos)
    ELSE parser_call("parse_call_args", T, arg.pos + 1, Append(args, arg.v), 0, 0)

parse_function_call(T, pos, name) ==
    LET open == expect(T, pos, "LParen") IN
    IF open.r # "ok" THEN open
    ELSE LET args == IF check(T, open.pos, "RParen") THEN POk(<<>>, open.pos)
                     ELSE parser_call("parse_call_args", T, open.pos, <<>>, 0, 0)
         IN  IF args.r # "ok" THEN args
             ELSE LET close == expect(T, args.pos, "RParen") IN
                  IF close.r # "ok" THEN close ELSE POk(ECall(name, args.v), close.pos)

parse_predicate_expr_with_precedence(T, pos, min_precedence, depth) ==
    LET u == parser_call("parse_unary_expr_for_predicate", T, pos, <<>>, 0, depth) IN
    IF u.r # "ok" THEN u
    ELSE LET left == parser_call("parse_postfix_expr_for_predicate", T, u.pos, u.v, 0, depth)
         IN  IF left.r # "ok" THEN left
             ELSE parser_call("parse_predicate_binary_loop", T, left.pos, left.v,
                              min_precedence, depth)

parse_predicate_binary_loop(T, pos, left, min_precedence, depth) ==
    LET b == current_binary_op_for_predicate(T, pos, depth) IN
    IF ~b.some THEN POk(left, pos)
    ELSE IF b.prec < min_precedence THEN POk(left, pos)
    ELSE LET right == parser_call("parse_predicate_expr_with_precedence", T, pos + 1, <<>>,
                                  b.prec + 1, depth)
         IN  IF right.r # "ok" THEN right
             ELSE parser_call("parse_predicate_binary_loop", T, right.pos,
                              EBinary(b.op, left, right.v), min_precedence, depth)

parse_unary_expr_for_predicate(T, pos, depth) ==
    CASE Cur(T, pos).k = "Not" ->
            LET expr == parser_call("parse_unary_expr_for_predicate", T, pos + 1, <<>>, 0, depth)
            IN  IF expr.r # "ok" THEN expr ELSE POk(EUnary("Not", expr.v), expr.pos)
      [] Cur(T, pos).k = "LParen" ->
            LET expr == parser_call("parse_predicate_expr_with_precedence", T, pos + 1, <<>>,
                                    0, depth + 1)
            IN  IF expr.r # "ok" THEN expr
                ELSE LET close == expect(T, expr.pos, "RParen") IN
                     IF close.r # "ok" THEN close ELSE POk(expr.v, close.pos)
      [] OTHER -> parser_call("parse_primary_expr", T, pos, <<>>, 0, 0)

parse_postfix_expr_for_predicate(T, pos, expr, depth) ==
    CASE Cur(T, pos).k = "Dot" ->
            LET field_tok == expect(T, pos + 1, "Ident") IN
            IF field_tok.r # "ok" THEN field_tok
            ELSE parser_call("parse_postfix_expr_for_predicate", T, field_tok.pos,
                             EFieldAccess(expr, field_tok.v.s), 0, depth)
      [] Cur(T, pos).k = "LBracket" ->
            LET index == parser_call("parse_predicate_expr_with_precedence", T, pos + 1, <<>>,
                                     0, depth + 1)
            IN  IF index.r # "ok" THEN index
                ELSE LET close == expect(T, index.pos, "RBracket") IN
                     IF close.r # "ok" THEN close
                     ELSE parser_call("parse_postfix_expr_for_predicate", T, close.pos,
                                      EIndexAccess(expr, index.v), 0, depth)
      [] OTHER -> POk(expr, pos)

parse_predicate_expr(T, pos) ==
    parser_call("parse_predicate_expr_with_precedence", T, pos, <<>>, 0, 0)

\* consumes the opening '/', the expression, and then one more token unchecked
parse_predicate(T, pos) ==
    LET expr == parser_call("parse_predicate_expr", T, pos + 1, <<>>, 0, 0) IN
    IF expr.r # "ok" THEN expr ELSE POk(expr.v, expr.pos + 1)

parse_assignment(T, pos) ==
    LET is_request == Cur(T, pos).k = "Request"
        dot == expect(T, pos + 1, "Dot")
    IN  IF dot.r # "ok" THEN dot
        ELSE LET field_tok == expect(T, dot.pos, "Ident") IN
             IF field_tok.r # "ok" THEN field_tok
             ELSE LET eq == expect(T, field_tok.pos, "Eq") IN
                  IF eq.r # "ok" THEN eq
                  ELSE LET value == parser_call("parse_expr", T, eq.pos, <<>>, 0, 0) IN
                       IF value.r # "ok" THEN value
                       ELSE LET semi == expect(T, value.pos, "Semi") IN
                            IF semi.r # "ok" THEN semi
                            ELSE POk(SAssignment(is_request, field_tok.v.s, value.v), semi.pos)

parse_sample_directive(T, pos) ==
    IF Cur(T, pos + 1).k # "Int" THEN PErr("Other", "Expected integer")
    ELSE LET numerator == Cur(T, pos + 1).i
             spec ==
                IF check(T, pos + 2, "Percent")
                THEN POk([percentage |-> TRUE, numerator |-> numerator], pos + 3)
                ELSE IF check(T, pos + 2, "Slash")
                THEN (IF Cur(T, pos + 3).k = "Int"
                      THEN POk([percentage |-> FALSE, numerator |-> numerator,
                                denominator |-> Cur(T, pos + 3).i], pos + 4)
                      ELSE PErr("Other", "Expected integer"))
                ELSE PErr("Other", "Expected '%' or '/' after sample number")
         IN  IF spec.r # "ok" THEN spec
             ELSE LET semi == expect(T, spec.pos, "Semi") IN
                  IF semi.r # "ok" THEN semi ELSE POk(SSample(spec.v), semi.pos)

parse_named_capture_args(T, pos, args) ==
    LET name_tok == expect(T, pos, "Ident") IN
    IF name_tok.r # "ok" THEN name_tok
    ELSE LET eq == expect(T, name_tok.pos, "Eq") IN
         IF eq.r # "ok" THEN eq
         ELSE LET value == parser_call("parse_expr", T, eq.pos, <<>>, 0, 0) IN
              IF value.r # "ok" THEN value
              ELSE LET args2 == Append(args, NamedArg(name_tok.v.s, value.v)) IN
                   IF ~check(T, value.pos, "Comma")
                   THEN POk([named |-> TRUE, items |-> args2], value.pos)
                   ELSE parser_call("parse_named_capture_args", T, value.pos + 1, args2, 0, 0)

parse_positional_capture_args(T, pos, args) ==
    LET arg == parser_call("parse_expr", T, pos, <<>>, 0, 0) IN
    IF arg.r # "ok" THEN arg
    ELSE IF ~check(T, arg.pos, "Comma")
         THEN POk([named |-> FALSE, items |-> Append(args, arg.v)], arg.pos)
    ELSE parser_call("parse_positional_capture_args", T, arg.pos + 1, Append(args, arg.v), 0, 0)

parse_capture_args(T, pos) ==
    IF Cur(T, pos).k = "Ident" /\ Cur(T, pos + 1).k = "Eq"
    THEN parser_call("parse_named_capture_args", T, pos, <<>>, 0, 0)
    ELSE parser_call("parse_positional_capture_args", T, pos, <<>>, 0, 0)

parse_capture_statement(T, pos) ==
    LET is_send == Cur(T, pos).k = "Send"
        open == expect(T, pos + 1, "LParen")
    IN  IF open.r # "ok" THEN open
        ELSE LET args == IF check(T, open.pos, "RParen")
                         THEN POk([named |-> FALSE, items |-> <<>>], open.pos)
                         ELSE parser_call("parse_capture_args", T, open.pos, <<>>, 0, 0)
             IN  IF args.r # "ok" THEN args
                 ELSE LET close == expect(T, args.pos, "RParen") IN
                      IF close.r # "ok" THEN close
                      ELSE LET semi == expect(T, close.pos, "Semi") IN
                           IF semi.r # "ok" THEN semi
                           ELSE POk(SCapture(is_send, args.v.named, args.v.items), semi.pos)

parse_statement(T, pos) ==
    CASE Cur(T, pos).k \in {"Req", "Request"} -> parser_call("parse_assignment", T, pos, <<>>, 0, 0)
      [] Cur(T, pos).k = "Sample" -> parser_call("parse_sample_directive", T, pos, <<>>, 0, 0)
      [] Cur(T, pos).k \in {"Capture", "Send"} ->
            parser_call("parse_capture_statement", T, pos, <<>>, 0, 0)
      [] OTHER -> PErr("Other", "Expected statement, found " \o Cur(T, pos).k)

parse_module_function(T, pos, parts) ==
    LET k == Cur(T, pos).k IN
    IF k \notin {"Ident", "Star"} THEN PErr("Other", "Expected identifier or '*'")
    ELSE LET parts2 == Append(parts, IF k = "Ident" THEN Cur(T, pos).s ELSE "*") IN
         IF ~check(T, pos + 1, "Dot") THEN POk(parts2, pos + 1)
         ELSE parser_call("parse_module_function", T, pos + 2, parts2, 0, 0)

parse_probe_point(T, pos) ==
    LET k == Cur(T, pos).k IN
    IF k \in {"Entry", "Exit"} THEN
        IF check(T, pos + 1, "Plus") THEN
            IF Cur(T, pos + 2).k = "Int"
            THEN POk([point |-> k \o "Offset", offset |-> Cur(T, pos + 2).i], pos + 3)
            ELSE PErr("Other", "Expected integer offset")
        ELSE POk([point |-> k], pos + 1)
    ELSE PErr("InvalidProbeSpec", "Expected 'entry' or 'exit', found " \o k)

parse_probe_spec(T, pos) ==
    IF Cur(T, pos).k \notin {"Fn", "Py"}
    THEN PErr("InvalidProbeSpec", "Expected 'fn' or 'py' at start of probe specification")
    ELSE LET provider == Cur(T, pos).k
             c1 == expect(T, pos + 1, "Colon")
         IN  IF c1.r # "ok" THEN c1
             ELSE LET module_function ==
                          parser_call("parse_module_function", T, c1.pos, <<>>, 0, 0) IN
                  IF module_function.r # "ok" THEN module_function
                  ELSE LET c2 == expect(T, module_function.pos, "Colon") IN
                       IF c2.r # "ok" THEN c2
                       ELSE LET probe_point ==
                                    parser_call("parse_probe_point", T, c2.pos, <<>>, 0, 0) IN
                            IF probe_point.r # "ok" THEN probe_point
                            ELSE POk(AstProbeSpec(provider, module_function.v, probe_point.v),
                                     probe_point.pos)

\* the statement loop of parse_probe
parse_body(T, pos, body) ==
    IF check(T, pos, "RBrace") \/ Cur(T, pos).k = "Eof" THEN POk(body, pos)
    ELSE LET stmt == parser_call("parse_statement", T, pos, <<>>, 0, 0) IN
         IF stmt.r # "ok" THEN stmt
         ELSE parser_call("parse_body", T, stmt.pos, Append(body, stmt.v), 0, 0)

parse_probe(T, pos) ==
    LET spec == parser_call("parse_probe_spec", T, pos, <<>>, 0, 0) IN
    IF spec.r # "ok" THEN spec
    ELSE LET predicate == IF check(T, spec.pos, "Slash")
                          THEN (LET pr == parser_call("parse_predicate", T, spec.pos, <<>>, 0, 0) IN
                                IF pr.r # "ok" THEN pr ELSE POk(Some(pr.v), pr.pos))
                          ELSE POk(None_, spec.pos)
         IN  IF predicate.r # "ok" THEN predicate
             ELSE LET open == expect(T, predicate.pos, "LBrace") IN
                  IF open.r # "ok" THEN open
                  ELSE LET body == parser_call("parse_body", T, open.pos, <<>>, 0, 0) IN
                       IF body.r # "ok" THEN body
                       ELSE LET close == expect(T, body.pos, "RBrace") IN
                            IF close.r # "ok" THEN close
                            ELSE POk(AstProbe(spec.v, predicate.v, body.v), close.pos)

parse_probes(T, pos, probes) ==
    IF Cur(T, pos).k = "Eof" THEN POk(probes, pos)
    ELSE LET probe == parser_call("parse_probe", T, pos, <<>>, 0, 0) IN
         IF probe.r # "ok" THEN probe
         ELSE parser_call("parse_probes", T, probe.pos, Append(probes, probe.v), 0, 0)

\* Parser::parse_program: the AstProgram is its sequence of probes
parse_program(T) == parser_call("parse_probes", T, 1, <<>>, 0, 0)

parser_call(method, T, pos, x, min_precedence, depth) ==
    CASE method = "parse_expr_with_precedence" ->
            parse_expr_with_precedence(T, pos, min_precedence)
      [] method = "parse_binary_loop" -> parse_binary_loop(T, pos, x, min_precedence)
      [] method = "parse_unary_expr" -> parse_unary_expr(T, pos)
      [] method = "parse_primary_expr" -> parse_primary_expr(T, pos)
      [] method = "parse_postfix_expr" -> parse_postfix_expr(T, pos, x)
      [] method = "parse_call_args" -> parse_call_args(T, pos, x)
      [] method = "parse_function_call" -> parse_function_call(T, pos, x)
      [] method = "parse_predicate_expr_with_precedence" ->
            parse_predicate_expr_with_precedence(T, pos, min_precedence, depth)
      [] method = "parse_predicate_binary_loop" ->
            parse_predicate_binary_loop(T, pos, x, min_precedence, depth)
      [] method = "parse_unary_expr_for_predicate" ->
            parse_unary_expr_for_predicate(T, pos, depth)
      [] method = "parse_postfix_expr_for_predicate" ->
            parse_postfix_expr_for_predicate(T, pos, x, depth)
      [] method = "parse_predicate_expr" -> parse_predicate_expr(T, pos)
      [] method = "parse_predicate" -> parse_predicate(T, pos)
      [] method = "parse_assignment" -> parse_assignment(T, pos)
      [] method = "parse_sample_directive" -> parse_sample_directive(T, pos)
      [] method = "parse_named_capture_args" -> parse_named_capture_args(T, pos, x)
      [] method = "parse_positional_capture_args" -> parse_positional_capture_args(T, pos, x)
      [] method = "parse_capture_args" -> parse_capture_args(T, pos)
      [] method = "parse_capture_statement" -> parse_capture_statement(T, pos)
      [] method = "parse_statement" -> parse_statement(T, pos)
      [] method = "parse_module_function" -> parse_module_function(T, pos, x)
      [] method = "parse_probe_point" -> parse_probe_point(T, pos)
      [] method = "parse_probe_spec" -> parse_probe_spec(T, pos)
      [] method = "parse_body" -> parse_body(T, pos, x)
      [] method = "parse_probe" -> parse_probe(T, pos)
      [] method = "parse_probes" -> parse_probes(T, pos, x)
      [] method = "parse_expr" -> parse_expr(T, pos)
      [] method = "parse_request_var_expr" -> parse_request_var_expr(T, pos)

(***************************************************************************)
(* parser/compiler.rs: Compiler.  The compiler state cs is                 *)
(* [constant_pool, bytecode, constant_map]; a compile function returns     *)
(* [r, cs, m] with r = "ok", "err" (a ParseError) or "panic", and cs the   *)
(* state it leaves behind.                                                 *)
(***************************************************************************)
U16Max == 65535

Compiler_new == [constant_pool |-> <<>>, bytecode |-> <<>>, constant_map |-> EmptyMap]

COk(cs) == [r |-> "ok", cs |-> cs, m |-> ""]

CErr(cs, m) == [r |-> "err", cs |-> cs, m |-> m]

\* ConstantKey: the constant itself (an f64 is keyed by its bits)
constant_to_key(constant) == constant

\* ConstantPool::add: [r, index, pool]
ConstantPool_add(pool, constant) ==
    IF Len(pool) >= U16Max
    THEN [r |-> "panic", index |-> 0, pool |-> pool]
    ELSE [r |-> "ok", index |-> Len(pool), pool |-> Append(pool, constant)]

\* add_or_get_constant without the lookup in constant_map
add_constant_unchecked(cs, constant) ==
    LET key == constant_to_key(constant)
        a == ConstantPool_add(cs.constant_pool, constant)
    IN  IF a.r # "ok" THEN [r |-> "panic", index |-> 0, cs |-> cs]
        ELSE [r |-> "ok", index |-> a.index,
              cs |-> [cs EXCEPT !.constant_pool = a.pool,
                                !.constant_map = MapPut(@, key, a.index)]]

\* [r, index, cs]
add_or_get_constant(cs, constant) ==
    LET key == constant_to_key(constant) IN
    IF key \in DOMAIN cs.constant_map
    THEN [r |-> "ok", index |-> cs.constant_map[key], cs |-> cs]
    ELSE LET a == ConstantPool_add(cs.constant_pool, constant) IN
         IF a.r # "ok" THEN [r |-> "panic", index |-> 0, cs |-> cs]
         ELSE [r |-> "ok", index |-> a.index,
               cs |-> [cs EXCEPT !.constant_pool = a.pool,
                                 !.constant_map = MapPut(@, key, a.index)]]

\* the operand with its high byte first
to_be_bytes(x) == <<x \div 256, x % 256>>

to_le_bytes(x) == <<x % 256, x \div 256>>

emit(cs, opcode) == [cs EXCEPT !.bytecode = Append(@, opcode)]

emit_u16(cs, opcode, operand) ==
    [cs EXCEPT !.bytecode = Append(@, opcode) \o to_le_bytes(operand)]

emit_call(cs, func_index, arg_count) ==
    [cs EXCEPT !.bytecode = Append(@, OpCallFunc) \o to_le_bytes(func_index) \o <<arg_count>>]

\* add the constant, then emit `opcode index`
EmitConst(cs, opcode, constant) ==
    LET a == add_or_get_constant(cs, constant) IN
    IF a.r # "ok" THEN [r |-> "panic", cs |-> a.cs, m |-> "Constant pool overflow"]
    ELSE COk(emit_u16(a.cs, opcode, a.index))

BinaryOpcode(op) ==
    CASE op = "Add" -> OpAdd [] op = "Sub" -> OpSub [] op = "Mul" -> OpMul
      [] op = "Div" -> OpDiv [] op = "Mod" -> OpMod [] op = "Eq" -> OpEq
      [] op = "NotEq" -> OpNe [] op = "Lt" -> OpLt [] op = "Gt" -> OpGt
      [] op = "LtEq" -> OpLe [] op = "GtEq" -> OpGe [] op = "And" -> OpAnd
      [] op = "Or" -> OpOr

MaxCallArgs == 255

\* The compile methods call one another through compiler_call, which resolves
\* the method named `method`; x is the AST it compiles, j and acc its loop state.
RECURSIVE compiler_call(_, _, _, _, _)


compile_expr(cs, expr) ==
    CASE expr.e = "Int" -> EmitConst(cs, OpPushConst, CInt(expr.value))
      [] expr.e = "Float" -> EmitConst(cs, OpPushConst, CFloat(expr.value))
      [] expr.e = "String" -> EmitConst(cs, OpPushConst, CString(expr.value))
      [] expr.e = "Bool" -> EmitConst(cs, OpPushConst, CBool(expr.value))
      [] expr.e = "None" -> EmitConst(cs, OpPushConst, CNone)
      [] expr.e = "Ident" -> EmitConst(cs, OpLoadVar, CIdentifier(expr.name))
      [] expr.e = "RequestVar" ->
            LET v == EmitConst(cs, OpLoadVar,
                               CIdentifier(IF expr.is_request THEN "request" ELSE "req"))
            IN  IF v.r # "ok" THEN v ELSE EmitConst(v.cs, OpGetAttr, CFieldName(expr.field))
      [] expr.e = "Binary" ->
            LET l == compiler_call("compile_expr", cs, expr.left, 0, <<>>) IN
            IF l.r # "ok" THEN l
            ELSE LET rr == compiler_call("compile_expr", l.cs, expr.right, 0, <<>>) IN
                 IF rr.r # "ok" THEN rr ELSE COk(emit(rr.cs, BinaryOpcode(expr.op)))
      [] expr.e = "Unary" ->
            LET x == compiler_call("compile_expr", cs, expr.expr, 0, <<>>) IN
            IF x.r # "ok" THEN x ELSE COk(emit(x.cs, OpNot))
      [] expr.e = "FieldAccess" ->
            LET o == compiler_call("compile_expr", cs, expr.object, 0, <<>>) IN
            IF o.r # "ok" THEN o ELSE EmitConst(o.cs, OpGetAttr, CFieldName(expr.field))
      [] expr.e = "IndexAccess" ->
            LET o == compiler_call("compile_expr", cs, expr.object, 0, <<>>) IN
            IF o.r # "ok" THEN o
            ELSE LET x == compiler_call("compile_expr", o.cs, expr.index, 0, <<>>) IN
                 IF x.r # "ok" THEN x ELSE COk(emit(x.cs, OpGetItem))
      [] expr.e = "Call" ->
            LET a == compiler_call("compile_exprs", cs, expr.args, 1, <<>>) IN
            IF a.r # "ok" THEN a
            ELSE LET f == add_or_get_constant(a.cs, CFunctionName(expr.function)) IN
                 IF f.r # "ok" THEN [r |-> "panic", cs |-> f.cs, m |-> "Constant pool overflow"]
                 ELSE IF Len(expr.args) > MaxCallArgs
                      THEN CErr(f.cs, "Too many arguments to function")
                 ELSE COk(emit_call(f.cs, f.index, Len(expr.args)))

\* `for arg in args { self.compile_expr(arg)?; }` from the j-th argument on:
\* the arguments are compiled in order and the first error ends the loop.  The
\* range is halved rather than walked, which keeps the evaluation shallow for
\* lists of hundreds of arguments.
compile_exprs(cs, exprs, j) ==
    IF j > Len(exprs) THEN COk(cs)
    ELSE IF j = Len(exprs) THEN compiler_call("compile_expr", cs, exprs[j], 0, <<>>)
    ELSE LET mid == (j + Len(exprs)) \div 2
             x == compiler_call("compile_exprs", cs, SubSeq(exprs, 1, mid), j, <<>>)
         IN  IF x.r # "ok" THEN x
             ELSE compiler_call("compile_exprs", x.cs, exprs, mid + 1, <<>>)

\* the loop over CaptureArgs::Named entries from the j-th on, halved likewise
compile_named_args(cs, entries, j) ==
    IF j > Len(entries) THEN COk(cs)
    ELSE IF j = Len(entries) THEN
        LET n == EmitConst(cs, OpPushConst, CString(entries[j].name)) IN
        IF n.r # "ok" THEN n
        ELSE compiler_call("compile_expr", n.cs, entries[j].value, 0, <<>>)
    ELSE LET mid == (j + Len(entries)) \div 2
             x == compiler_call("compile_named_args", cs, SubSeq(entries, 1, mid), j, <<>>)
         IN  IF x.r # "ok" THEN x
             ELSE compiler_call("compile_named_args", x.cs, entries, mid + 1, <<>>)

\* compile_stmt passing over a sample statement
compile_stmt_skip_sample(cs, stmt) ==
    CASE stmt.s = "Assignment" ->
            LET v == compiler_call("compile_expr", cs, stmt.value, 0, <<>>) IN
            IF v.r # "ok" THEN v
            ELSE EmitConst(v.cs, OpStoreVar,
                           CIdentifier((IF stmt.is_request THEN "request." ELSE "req.")
                                       \o stmt.field))
      [] stmt.s = "Capture" ->
            LET a == IF stmt.named THEN compiler_call("compile_named_args", cs, stmt.items, 1, <<>>)
                     ELSE compiler_call("compile_exprs", cs, stmt.items, 1, <<>>)
                arg_count == IF stmt.named THEN Len(stmt.items) * 2 ELSE Len(stmt.items)
            IN  IF a.r # "ok" THEN a
                ELSE LET f == add_or_get_constant(a.cs,
                                 CFunctionName(IF stmt.is_send THEN "send" ELSE "capture"))
                     IN  IF f.r # "ok"
                         THEN [r |-> "panic", cs |-> f.cs, m |-> "Constant pool overflow"]
                         ELSE IF arg_count > MaxCallArgs
                              THEN CErr(f.cs, "Too many arguments")
                         ELSE COk(emit(emit_call(f.cs, f.index, arg_count), OpPop))
      [] stmt.s = "Sample" ->
            COk(cs)

compile_stmt(cs, stmt) ==
    CASE stmt.s = "Assignment" ->
            LET v == compiler_call("compile_expr", cs, stmt.value, 0, <<>>) IN
            IF v.r # "ok" THEN v
            ELSE EmitConst(v.cs, OpStoreVar,
                           CIdentifier((IF stmt.is_request THEN "request." ELSE "req.")
                                       \o stmt.field))
      [] stmt.s = "Capture" ->
            LET a == IF stmt.named THEN compiler_call("compile_named_args", cs, stmt.items, 1, <<>>)
                     ELSE compiler_call("compile_exprs", cs, stmt.items, 1, <<>>)
                arg_count == IF stmt.named THEN Len(stmt.items) * 2 ELSE Len(stmt.items)
            IN  IF a.r # "ok" THEN a
                ELSE LET f == add_or_get_constant(a.cs,
                                 CFunctionName(IF stmt.is_send THEN "send" ELSE "capture"))
                     IN  IF f.r # "ok"
                         THEN [r |-> "panic", cs |-> f.cs, m |-> "Constant pool overflow"]
                         ELSE IF arg_count > MaxCallArgs
                              THEN CErr(f.cs, "Too many arguments")
                         ELSE COk(emit(emit_call(f.cs, f.index, arg_count), OpPop))
      [] stmt.s = "Sample" ->
            CErr(cs, "Sample statements should be handled at probe level")

compile_stmts(cs, body, j) ==
    IF j > Len(body) THEN COk(cs)
    ELSE LET x == compiler_call("compile_stmt", cs, body[j], 0, <<>>) IN
         IF x.r # "ok" THEN x ELSE compiler_call("compile_stmts", x.cs, body, j + 1, <<>>)

RECURSIVE JoinParts(_, _)
JoinParts(parts, j) ==
    IF j > Len(parts) THEN ""
    ELSE (IF j > 1 THEN "." ELSE "") \o parts[j] \o JoinParts(parts, j + 1)

compile_probe_spec(spec) ==
    [specifier |-> JoinParts(spec.module_function, 1),
     target |-> IF spec.probe_point.point \in {"Entry", "EntryOffset"} THEN "Entry" ELSE "Exit"]

take_bytecode(cs) == [bytecode |-> cs.bytecode, cs |-> [cs EXCEPT !.bytecode = <<>>]]

\* [r, cs, m, probe]
compile_probe(cs, probe, idx) ==
    LET spec == compile_probe_spec(probe.spec)
        p == IF probe.predicate.some
             THEN compiler_call("compile_expr", cs, probe.predicate.v, 0, <<>>)
             ELSE COk(cs)
    IN  IF p.r # "ok" THEN p
        ELSE LET predicate == IF probe.predicate.some THEN take_bytecode(p.cs)
                              ELSE [bytecode |-> <<>>, cs |-> p.cs]
                 b == compiler_call("compile_stmts", predicate.cs, probe.body, 1, <<>>)
             IN  IF b.r # "ok" THEN b
                 ELSE LET body == take_bytecode(b.cs) IN
                      [r |-> "ok", cs |-> body.cs, m |-> "",
                       probe |-> [id |-> "probe_" \o IntToStr(idx), spec |-> spec,
                                  predicate |-> predicate.bytecode, body |-> body.bytecode]]

compile_probes(cs, ast, j, probes) ==
    IF j > Len(ast) THEN [r |-> "ok", cs |-> cs, m |-> "", probes |-> probes]
    ELSE LET p == compiler_call("compile_probe", cs, ast[j], j - 1, <<>>) IN
         IF p.r # "ok" THEN p
         ELSE compiler_call("compile_probes", p.cs, ast, j + 1, Append(probes, p.probe))

\* Compiler::compile: [r, cs, m, program]
compile(cs, ast) ==
    LET ps == compiler_call("compile_probes", cs, ast, 1, <<>>) IN
    IF ps.r # "ok" THEN ps
    ELSE [r |-> "ok", cs |-> ps.cs, m |-> "",
          program |-> [version |-> 1, constant_pool |-> ps.cs.constant_pool,
                       probes |-> ps.probes, sampling |-> FInt(1)]]

compiler_call(method, cs, x, j, acc) ==
    CASE method = "compile_expr" -> compile_expr(cs, x)
      [] method = "compile_exprs" -> compile_exprs(cs, x, j)
      [] method = "compile_named_args" -> compile_named_args(cs, x, j)
      [] method = "compile_stmt" -> compile_stmt(cs, x)
      [] method = "compile_stmts" -> compile_stmts(cs, x, j)
      [] method = "compile_probe" -> compile_probe(cs, x, j)
      [] method = "compile_probes" -> compile_probes(cs, x, j, acc)
      [] method = "compile" -> compile(cs, x)

\* parser::parse (and python_bindings::compile): lex, parse, compile with a fresh Compiler
parse(source) ==
    LET ast == parse_program(Tokens(source, 1)) IN
    IF ast.r # "ok" THEN [r |-> "err", m |-> ast.m]
    ELSE LET c == compiler_call("compile", Compiler_new, ast.v, 0, <<>>) IN
         IF c.r = "ok" THEN Ok(c.program) ELSE [r |-> c.r, m |-> c.m]

(***************************************************************************)
(* program.rs: a Program and its protobuf form.  The generated module      *)
(* `proto` (hogtrace.vm.rs) is the schema of the specification, section    *)
(* 4.5: a message is a record, an absent message or oneof is None_.        *)
(* prost writes a message as the sequence of its fields [num, wt, v]: wt   *)
(* is the wire type (0 varint, 1 fixed64, 2 length-delimited, 5 fixed32),  *)
(* a scalar field holding its default is not written, a oneof member and   *)
(* a present message always are, an int64 is written as its two's          *)
(* complement, and a field that is not read back is its default.           *)
(***************************************************************************)
prost_encode(p) ==
    LET Field(num, wt, v) == <<[num |-> num, wt |-> wt, v |-> v]>>
        Scalar(num, wt, v, default) == IF v = default THEN <<>> ELSE Field(num, wt, v)
        Value(x) ==
            CASE x.k = "IntValue" -> Field(1, 0, x.v % (2 ^ IntBits))
              [] x.k = "FloatValue" -> Field(2, 1, x.v)
              [] x.k = "StringValue" -> Field(3, 2, x.v)
              [] x.k = "BoolValue" -> Field(4, 0, IF x.v THEN 1 ELSE 0)
              [] x.k = "NoneValue" -> Field(5, 2, <<>>)
              [] x.k = "Identifier" -> Field(6, 2, x.v)
              [] x.k = "FieldName" -> Field(7, 2, x.v)
              [] x.k = "FunctionName" -> Field(8, 2, x.v)
        Constant(c) == IF c.value.some THEN Value(c.value.v) ELSE <<>>
        ConstantPool(cp) ==
            [i \in 1..Len(cp.constants) |->
                [num |-> 1, wt |-> 2, v |-> Constant(cp.constants[i])]]
        FnProbeSpec(f) ==
            Scalar(1, 2, f.function_specifier, "") \o Scalar(2, 0, f.target % (2 ^ IntBits), 0)
        ProbeSpec(s) == IF s.spec.some THEN Field(1, 2, FnProbeSpec(s.spec.v)) ELSE <<>>
        Probe(q) ==
            Scalar(1, 2, q.id, "")
            \o (IF q.spec.some THEN Field(2, 2, ProbeSpec(q.spec.v)) ELSE <<>>)
            \o Scalar(3, 2, q.predicate, <<>>)
            \o Scalar(4, 2, q.body, <<>>)
    IN  Scalar(1, 0, p.version, 0)
        \o (IF p.constant_pool.some THEN Field(2, 2, ConstantPool(p.constant_pool.v))
            ELSE <<>>)
        \o [i \in 1..Len(p.probes) |-> [num |-> 3, wt |-> 2, v |-> Probe(p.probes[i])]]
        \o Scalar(4, 5, p.sampling, FInt(0))

\* Message::decode: Ok(message), or Err when a known field has another wire type
prost_decode(bytes) ==
    LET Last(fs, nums) ==
            LET S == {i \in 1..Len(fs) : fs[i].num \in nums} IN
            IF S = {} THEN None_ ELSE Some(fs[CHOOSE i \in S : \A j \in S : j <= i])
        All(fs, num) == LET Is(f) == f.num = num IN SelectSeq(fs, Is)
        Get(fs, num, default) ==
            IF Last(fs, {num}).some THEN Last(fs, {num}).v.v ELSE default
        Typed(fs, types) ==
            \A i \in 1..Len(fs) : fs[i].num \in DOMAIN types => fs[i].wt = types[fs[i].num]
        ConstantOk(fs) == Typed(fs, <<0, 1, 2, 0, 2, 2, 2, 2>>)
        Constant(fs) ==
            LET l == Last(fs, 1..8) IN
            IF ~l.some THEN [value |-> None_]
            ELSE [value |-> Some(
                    CASE l.v.num = 1 -> [k |-> "IntValue", v |-> Wrap(l.v.v)]
                      [] l.v.num = 2 -> [k |-> "FloatValue", v |-> l.v.v]
                      [] l.v.num = 3 -> [k |-> "StringValue", v |-> l.v.v]
                      [] l.v.num = 4 -> [k |-> "BoolValue", v |-> l.v.v # 0]
                      [] l.v.num = 5 -> [k |-> "NoneValue"]
                      [] l.v.num = 6 -> [k |-> "Identifier", v |-> l.v.v]
                      [] l.v.num = 7 -> [k |-> "FieldName", v |-> l.v.v]
                      [] l.v.num = 8 -> [k |-> "FunctionName", v |-> l.v.v])]
        PoolOk(fs) ==
            Typed(fs, <<2>>) /\ \A i \in 1..Len(fs) : fs[i].num = 1 => ConstantOk(fs[i].v)
        Pool(fs) ==
            [constants |-> [i \in 1..Len(All(fs, 1)) |-> Constant(All(fs, 1)[i].v)]]
        FnOk(fs) == Typed(fs, <<2, 0>>)
        Fn(fs) == [k |-> "Fn", function_specifier |-> Get(fs, 1, ""),
                   target |-> Wrap(Get(fs, 2, 0))]
        SpecOk(fs) ==
            Typed(fs, <<2>>) /\ \A i \in 1..Len(fs) : fs[i].num = 1 => FnOk(fs[i].v)
        ProbeSpec(fs) ==
            [spec |-> IF Last(fs, {1}).some THEN Some(Fn(Last(fs, {1}).v.v)) ELSE None_]
        ProbeOk(fs) ==
            Typed(fs, <<2, 2, 2, 2>>) /\ \A i \in 1..Len(fs) : fs[i].num = 2 => SpecOk(fs[i].v)
        Probe(fs) ==
            [id |-> Get(fs, 1, ""),
             spec |-> IF Last(fs, {2}).some THEN Some(ProbeSpec(Last(fs, {2}).v.v)) ELSE None_,
             predicate |-> Get(fs, 3, <<>>),
             body |-> Get(fs, 4, <<>>)]
        ProgramOk(fs) ==
            /\ Typed(fs, <<0, 2, 2, 5>>)
            /\ \A i \in 1..Len(fs) : fs[i].num = 2 => PoolOk(fs[i].v)
            /\ \A i \in 1..Len(fs) : fs[i].num = 3 => ProbeOk(fs[i].v)
    IN  IF ~ProgramOk(bytes) THEN Err("invalid wire type")
        ELSE Ok([version |-> Get(bytes, 1, 0),
                 constant_pool |-> IF Last(bytes, {2}).some
                                   THEN Some(Pool(Last(bytes, {2}).v.v)) ELSE None_,
                 probes |-> [i \in 1..Len(All(bytes, 3)) |-> Probe(All(bytes, 3)[i].v)],
                 sampling |-> Get(bytes, 4, FInt(0))])

\* collect::<Result<Vec<_>, _>>: the first Err, or Ok of the values
collect(rs) ==
    LET S == {i \in 1..Len(rs) : rs[i].r # "ok"} IN
    IF S = {} THEN Ok([i \in 1..Len(rs) |-> rs[i].v])
    ELSE rs[CHOOSE i \in S : \A j \in S : i <= j]

\* FnTarget::to_proto as i32
FnTarget_to_proto(t) == IF t = "Entry" THEN 0 ELSE 1

\* FnTarget::from_proto reading every value as Entry
FnTarget_from_proto_entry(value) == Ok("Entry")

FnTarget_from_proto(value) ==
    CASE value = 0 -> Ok("Entry")
      [] value = 1 -> Ok("Exit")
      [] OTHER -> Err("Invalid FnProbeTarget value: " \o IntToStr(value))

ProbeSpec_to_proto(s) ==
    [spec |-> Some([k |-> "Fn", function_specifier |-> s.specifier,
                    target |-> FnTarget_to_proto(s.target)])]

ProbeSpec_from_proto(proto) ==
    IF ~proto.spec.some THEN Err("ProbeSpec has no spec variant")
    ELSE LET target == FnTarget_from_proto(proto.spec.v.target) IN
         IF target.r # "ok" THEN target
         ELSE Ok([specifier |-> proto.spec.v.function_specifier, target |-> target.v])

Probe_to_proto(q) ==
    [id |-> q.id, spec |-> Some(ProbeSpec_to_proto(q.spec)),
     predicate |-> q.predicate, body |-> q.body]

Probe_from_proto(proto) ==
    IF ~proto.spec.some THEN Err("Probe missing spec")
    ELSE LET spec == ProbeSpec_from_proto(proto.spec.v) IN
         IF spec.r # "ok" THEN spec
         ELSE Ok([id |-> proto.id, spec |-> spec.v,
                  predicate |-> proto.predicate, body |-> proto.body])

convert_constant_to_proto(constant) ==
    [value |-> Some(
        CASE constant.k = "Int" -> [k |-> "IntValue", v |-> constant.i]
          [] constant.k = "Float" -> [k |-> "FloatValue", v |-> constant.f]
          [] constant.k = "String" -> [k |-> "StringValue", v |-> constant.s]
          [] constant.k = "Bool" -> [k |-> "BoolValue", v |-> constant.b]
          [] constant.k = "None" -> [k |-> "NoneValue"]
          [] constant.k = "Identifier" -> [k |-> "Identifier", v |-> constant.s]
          [] constant.k = "FieldName" -> [k |-> "FieldName", v |-> constant.s]
          [] constant.k = "FunctionName" -> [k |-> "FunctionName", v |-> constant.s])]

convert_constant(proto_const) ==
    IF ~proto_const.value.some THEN Err("Constant has no value")
    ELSE LET value == proto_const.value.v IN
         Ok(CASE value.k = "IntValue" -> CInt(value.v)
              [] value.k = "FloatValue" -> CFloat(value.v)
              [] value.k = "StringValue" -> CString(value.v)
              [] value.k = "BoolValue" -> CBool(value.v)
              [] value.k = "NoneValue" -> CNone
              [] value.k = "Identifier" -> CIdentifier(value.v)
              [] value.k = "FieldName" -> CFieldName(value.v)
              [] value.k = "FunctionName" -> CFunctionName(value.v))

convert_constant_pool_to_proto(pool) ==
    [constants |-> [i \in 1..Len(pool) |-> convert_constant_to_proto(pool[i])]]

\* every constant before the first Err is added with ConstantPool::add
convert_constant_pool(proto_pool) ==
    IF ~proto_pool.some THEN Err("Missing constant pool")
    ELSE LET cs == collect([i \in 1..Len(proto_pool.v.constants) |->
                               convert_constant(proto_pool.v.constants[i])])
             n == Len(proto_pool.v.constants)
             bad == {i \in 1..n : ~proto_pool.v.constants[i].value.some}
         IN  IF n > U16Max /\ \A i \in bad : i > U16Max + 1
             THEN Panic("Constant pool overflow: too many constants")
             ELSE cs

to_proto(p) ==
    [version |-> p.version,
     constant_pool |-> Some(convert_constant_pool_to_proto(p.constant_pool)),
     probes |-> [i \in 1..Len(p.probes) |-> Probe_to_proto(p.probes[i])],
     sampling |-> p.sampling]

from_proto(proto) ==
    LET constant_pool == convert_constant_pool(proto.constant_pool) IN
    IF constant_pool.r # "ok" THEN constant_pool
    ELSE LET probes == collect([i \in 1..Len(proto.probes) |->
                                   Probe_from_proto(proto.probes[i])]) IN
         IF probes.r # "ok" THEN probes
         ELSE Ok([version |-> proto.version, constant_pool |-> constant_pool.v,
                  probes |-> probes.v, sampling |-> proto.sampling])

to_proto_bytes(p) == Ok(prost_encode(to_proto(p)))

from_proto_bytes(bytes) ==
    LET proto_program == prost_decode(bytes) IN
    IF proto_program.r # "ok"
    THEN Err("Failed to decode protobuf: " \o proto_program.m)
    ELSE from_proto(proto_program.v)

(***************************************************************************)
(* The state of a run.                                                     *)
(*   source, program : the text given to parser::parse and its result      *)
(*   probe, frame    : the probe being fired and the host frame            *)
(*   pc              : where the run stands                                *)
(*   pool, bytecode, ip, stack, disp : the Executor, the bytecode of the   *)
(*                     current execute call and the index `i` of its loop  *)
(*   disp0, log      : the dispatcher at the start of the current execute  *)
(*                     call and the dispatcher operations it has invoked   *)
(*   calls           : the execute calls begun on this Executor, in order  *)
(*   pred            : the result of executing the predicate, if any       *)
(*   result          : what the last execute / execute_probe returned      *)
(*   operands, outcome : the arguments of a function called on its own and *)
(*                     what it returned                                    *)
(*   budget          : the code fragments or constants a test may still    *)
(*                     submit                                              *)
(*   compiler, given : a Compiler and the AstProgram last given to its     *)
(*                     compile                                             *)
(***************************************************************************)
VARIABLES source, program, probe, frame, pc, pool, bytecode, ip, stack, disp, disp0,
          log, calls, pred, result, operands, outcome, budget, compiler, given

vars == <<source, program, probe, frame, pc, pool, bytecode, ip, stack, disp, disp0,
          log, calls, pred, result, operands, outcome, budget, compiler, given>>

(***************************************************************************)
(* python_bindings.rs: execute_probe                                       *)
(***************************************************************************)
\* the `match executor.execute(&probe.inner.predicate)` on an Ok value
match_predicate_result_truthy(value) ==
    IF is_truthy(value) THEN "continue" ELSE "none"

match_predicate_result(value) ==
    IF value = VBool(TRUE) THEN "continue"
    ELSE IF value = VBool(FALSE) THEN "none"
    ELSE "error"

\* PythonDispatcher::capture_to_py_dict
RECURSIVE capture_to_py_dict_from(_, _, _)
capture_to_py_dict_from(data, keys, dict) ==
    IF keys = {} THEN Ok(PyDict(dict))
    ELSE LET key == CHOOSE k \in keys : TRUE
             py_value == value_to_py(data[key])
         IN  IF py_value.r # "ok" THEN py_value
             ELSE capture_to_py_dict_from(data, keys \ {key}, MapPut(dict, key, py_value.v))

capture_to_py_dict(capture) == capture_to_py_dict_from(capture, DOMAIN capture, EmptyMap)

\* the tail of execute_probe: only the first capture is converted and returned
deliver(captures) ==
    IF captures = <<>> THEN Ok(None_)
    ELSE LET dict == capture_to_py_dict(captures[1]) IN
         IF dict.r # "ok" THEN dict ELSE Ok(Some(dict.v))

new_dispatcher(f) ==
    IF f.retval.some \/ f.exception.some
    THEN PythonDispatcher_new_exit(f.locals, f.globals, f.retval, f.exception, EmptyMap)
    ELSE PythonDispatcher_new_entry(f.locals, f.globals, EmptyMap)

(***************************************************************************)
(* Inputs of the pipeline: sources and host frames                         *)
(***************************************************************************)
E1 ==
    "fn:myapp.users.authenticate:entry\n/ arg0 > 100 && arg1 != None /\n"
    \o "{ $req.user_id = arg0; capture(user_id=$req.user_id, email=arg1); }"

E3 == "fn:t:entry { capture(42); }"

E4 == "fn:t:entry { capture(user_id=1, event=\"login\"); }"

E5 == "fn:t:entry / arg0 % 2 == 0 / { capture(arg0); }"

E6 == "fn:t:entry / 10/0 > 1 / { }"

E6Paren == "fn:t:entry / (10/0) > 1 / { }"

TwoCaptures == "fn:t:entry { capture(42); capture(100); }"

ThreeCaptures == "fn:t:exit / arg0 > 1 / { capture(1); send(x=retval); capture(arg0, 2); }"

ReqRoundTrip == "fn:t:entry { $req.f = 7; capture($req.f); }"

RequestRoundTrip == "fn:t:entry { $request.f = arg0; capture(v=$request.f); }"

NonBoolPredicate == "fn:t:entry / arg0 / { capture(1); }"

FailingPredicate == "fn:t:entry / nosuch > 1 / { capture(1); }"

FailingBody == "fn:t:entry { capture(1); capture(nosuch); capture(2); }"

\* capture/send statements written with positional arguments, and their values
PositionalCases ==
    {[text |-> "fn:t:entry { capture(); }", values |-> <<>>],
     [text |-> E3, values |-> <<VInt(42)>>],
     [text |-> "fn:t:entry { capture(1, \"x\", None); }",
      values |-> <<VInt(1), VString("x"), VNone>>],
     [text |-> "fn:t:entry { capture(\"k\", 5); }", values |-> <<VString("k"), VInt(5)>>],
     [text |-> "fn:t:entry { send(\"a\", \"b\", True); }",
      values |-> <<VString("a"), VString("b"), VBool(TRUE)>>]}

\* capture statements written with named arguments of pairwise distinct names
NamedObject == "fn:t:entry { capture(n=arg0, a=args); }"

NamedSources == {E4, NamedObject}

\* operands of the `a && b` / `a || b` family
LogicalOperands == {"arg0", "arg1", "len(args)", "True", "0", "\"\""}

LogicalSource(a, op, b) == "fn:t:entry { capture(" \o a \o " " \o op \o " " \o b \o "); }"

LogicalSources ==
    {LogicalSource(a, op, b) : a \in LogicalOperands, op \in {"&&", "||"}, b \in LogicalOperands}

\* E8 and the arithmetic expressions 7 o1 3 o2 2 in their three groupings,
\* each with its syntax tree
E8 == "(42 + 8) * 2 - 10 / 2"

ArithSymbols == {"+", "-", "*", "/", "%"}

ArithPrecedence(o) == IF o \in {"+", "-"} THEN 1 ELSE 2

Lit(n) == [o |-> "lit", n |-> n]

Node(o, l, r) == [o |-> o, l |-> l, r |-> r]

LeftTree(o1, o2) == Node(o2, Node(o1, Lit(7), Lit(3)), Lit(2))

RightTree(o1, o2) == Node(o1, Lit(7), Node(o2, Lit(3), Lit(2)))

ArithCases ==
    {[text |-> "7 " \o o1 \o " 3 " \o o2 \o " 2",
      tree |-> IF ArithPrecedence(o2) > ArithPrecedence(o1)
               THEN RightTree(o1, o2) ELSE LeftTree(o1, o2)] :
        o1 \in ArithSymbols, o2 \in ArithSymbols}
    \cup {[text |-> "(7 " \o o1 \o " 3) " \o o2 \o " 2", tree |-> LeftTree(o1, o2)] :
              o1 \in ArithSymbols, o2 \in ArithSymbols}
    \cup {[text |-> "7 " \o o1 \o " (3 " \o o2 \o " 2)", tree |-> RightTree(o1, o2)] :
              o1 \in ArithSymbols, o2 \in ArithSymbols}
    \cup {[text |-> E8,
           tree |-> Node("-", Node("*", Node("+", Lit(42), Lit(8)), Lit(2)),
                         Node("/", Lit(10), Lit(2)))],
          [text |-> "32767 + 1", tree |-> Node("+", Lit(32767), Lit(1))],
          [text |-> "(0 - 32767 - 1) / (0 - 1)",
           tree |-> Node("/", Node("-", Node("-", Lit(0), Lit(32767)), Lit(1)),
                         Node("-", Lit(0), Lit(1)))]}

ArithSource(text) == "fn:t:entry { capture(" \o text \o "); }"

ArithSources == {ArithSource(c.text) : c \in ArithCases}

\* probes with a sample statement in the body
SampleSources ==
    {"fn:t:entry { sample 10%; capture(1); }",
     "fn:t:entry { capture(1); sample 1/2; }",
     "fn:t:entry / arg0 > 1 / { sample 50%; }",
     "fn:t:entry { capture(1); } fn:t:exit { $req.x = 1; sample 5%; }"}

\* two probes, with constants of every kind that holds a default value
TwoProbes ==
    "fn:a.b:entry / arg0 > 1.5 / { capture(arg0, None, False); } "
    \o "fn:a.b:exit / retval == 7 / { capture(retval, \"\", 0); }"

\* predicates whose expression is followed by another token than '/'
UnclosedSources ==
    {"fn:t:entry / arg0 > 10 { capture(arg0); }",
     "fn:t:entry / arg0 > 10 ; { capture(arg0); }",
     "fn:t:entry / arg0 > 10 ) { capture(arg0); }",
     "fn:t:entry / arg0 > 10 { { capture(arg0); }",
     "fn:t:entry / arg0 > 10"}

\* predicates with '/' inside parentheses, brackets and call arguments
DivisionSources ==
    {"fn:t:entry / (arg0 / 2) > 1 / { capture(arg0); }",
     "fn:t:entry / args[4 / 2 - 2] == 150 / { capture(arg0); }",
     "fn:t:entry / ((arg0 / 2) / (4 / 2)) == 1 / { capture(arg0); }",
     "fn:t:entry / !(arg0 / 2 > 1) / { capture(arg0); }",
     "fn:t:entry / len(args) * (4 / 2) > 1 && (arg0 > 1) / { capture(arg0); }",
     "fn:t:entry / args[(1 - 1) / 2] > 1 / { capture(arg0); }",
     "fn:t:entry / len(args / 2) > 1 / { capture(arg0); }"}

\* predicates with a '/' after every parenthesis and bracket is closed
SlashSources ==
    {"fn:t:entry / (arg0) / 2 > 1 / { capture(arg0); }",
     "fn:t:entry / len(args) / 2 > 1 / { capture(arg0); }",
     "fn:t:entry / args[0] / 2 / { capture(arg0); }"}

\* expressions with a postfix access under `!` or beside a binary operator,
\* each with the tree in which the access binds tightest
PostfixCases ==
    {[text |-> "!arg0.f",
      ast |-> EUnary("Not", EFieldAccess(EIdent("arg0"), "f"))],
     [text |-> "!args[0]",
      ast |-> EUnary("Not", EIndexAccess(EIdent("args"), EInt(0)))],
     [text |-> "arg0 + arg1.f",
      ast |-> EBinary("Add", EIdent("arg0"), EFieldAccess(EIdent("arg1"), "f"))],
     [text |-> "arg0 == args[1]",
      ast |-> EBinary("Eq", EIdent("arg0"), EIndexAccess(EIdent("args"), EInt(1)))],
     [text |-> "arg0.f * arg1.g.h",
      ast |-> EBinary("Mul", EFieldAccess(EIdent("arg0"), "f"),
                      EFieldAccess(EFieldAccess(EIdent("arg1"), "g"), "h"))],
     [text |-> "arg0 && args[0].f",
      ast |-> EBinary("And", EIdent("arg0"),
                      EFieldAccess(EIndexAccess(EIdent("args"), EInt(0)), "f"))]}

PredicateSource(text) == "fn:t:entry / " \o text \o " / { capture(1); }"

PostfixSources ==
    {ArithSource(c.text) : c \in PostfixCases}
    \cup {PredicateSource(c.text) : c \in PostfixCases}

\* the binary operators as written, their BinaryOp and their precedence level
BinarySymbols == {"||", "&&", "==", "!=", "<", ">", "<=", ">=", "+", "-", "*", "/", "%"}

OpOf(o) ==
    CASE o = "||" -> "Or" [] o = "&&" -> "And" [] o = "==" -> "Eq" [] o = "!=" -> "NotEq"
      [] o = "<" -> "Lt" [] o = ">" -> "Gt" [] o = "<=" -> "LtEq" [] o = ">=" -> "GtEq"
      [] o = "+" -> "Add" [] o = "-" -> "Sub" [] o = "*" -> "Mul" [] o = "/" -> "Div"
      [] o = "%" -> "Mod"

Level(o) ==
    CASE o = "||" -> 1
      [] o = "&&" -> 2
      [] o \in {"==", "!="} -> 3
      [] o \in {"<", ">", "<=", ">="} -> 4
      [] o \in {"+", "-"} -> 5
      [] o \in {"*", "/", "%"} -> 6

Bin(o, l, r) == EBinary(OpOf(o), l, r)

\* every pair of adjacent operators, an ascending and a descending chain of
\* all levels and a chain of one level, each with the tree of the precedence order
PrecedenceCases ==
    {[text |-> "arg0 " \o o1 \o " arg1 " \o o2 \o " arg2",
      ast |-> IF Level(o2) > Level(o1)
              THEN Bin(o1, EIdent("arg0"), Bin(o2, EIdent("arg1"), EIdent("arg2")))
              ELSE Bin(o2, Bin(o1, EIdent("arg0"), EIdent("arg1")), EIdent("arg2"))] :
        o1 \in BinarySymbols, o2 \in BinarySymbols}
    \cup {[text |-> "a || b && c == d < e + f * g",
           ast |-> Bin("||", EIdent("a"), Bin("&&", EIdent("b"), Bin("==", EIdent("c"),
                   Bin("<", EIdent("d"), Bin("+", EIdent("e"),
                   Bin("*", EIdent("f"), EIdent("g")))))))],
          [text |-> "a % b - c >= d != e && f || g",
           ast |-> Bin("||", Bin("&&", Bin("!=", Bin(">=", Bin("-",
                   Bin("%", EIdent("a"), EIdent("b")), EIdent("c")), EIdent("d")),
                   EIdent("e")), EIdent("f")), EIdent("g"))],
          [text |-> "a - b + c - d",
           ast |-> Bin("-", Bin("+", Bin("-", EIdent("a"), EIdent("b")), EIdent("c")),
                       EIdent("d"))],
          [text |-> "a * b + c * d == e || f",
           ast |-> Bin("||", Bin("==", Bin("+", Bin("*", EIdent("a"), EIdent("b")),
                   Bin("*", EIdent("c"), EIdent("d"))), EIdent("e")), EIdent("f"))]}

\* each case as a capture argument and, when it has no '/', as a predicate
PrecedenceSources ==
    {ArithSource(c.text) : c \in PrecedenceCases}
    \cup {PredicateSource(c.text) :
              c \in {d \in PrecedenceCases : \A o1 \in BinarySymbols :
                        d.text \notin {"arg0 " \o o1 \o " arg1 / arg2",
                                       "arg0 / arg1 " \o o1 \o " arg2"}}}

\* calls without arguments, as a statement and at the start of an expression
EmptyCallSources ==
    {"fn:t:entry { capture(); }",
     "fn:t:exit { send(); }",
     "fn:t:entry / ready() / { capture(arg0); }",
     "fn:t:entry { capture(now(), 1); }"}

\* entry and exit probes loading `retval` and `exception`
ExitSources ==
    {"fn:t:exit { capture(exception); }",
     "fn:t:exit { capture(retval); }",
     "fn:t:entry { capture(exception); }",
     "fn:t:entry { capture(retval); }"}

Sources ==
    {E1, E3, E4, E5, E6, E6Paren, TwoCaptures, ThreeCaptures, ReqRoundTrip,
     RequestRoundTrip, NonBoolPredicate, FailingPredicate, FailingBody, TwoProbes}
    \cup UnclosedSources \cup DivisionSources \cup SlashSources \cup PostfixSources
    \cup PrecedenceSources \cup EmptyCallSources \cup ExitSources
    \cup LogicalSources \cup {c.text : c \in PositionalCases} \cup NamedSources
    \cup ArithSources \cup SampleSources

Frame(args, retval) ==
    [locals |-> [n \in {"args"} |-> PyTuple(args)], globals |-> EmptyMap,
     retval |-> retval, exception |-> None_]

Frames ==
    {Frame(<<PyInt(150), PyStr("u@x.com")>>, None_),
     Frame(<<PyInt(50), PyStr("u@x.com")>>, None_),
     Frame(<<PyInt(0), PyNone>>, None_),
     Frame(<<PyInt(4)>>, Some(PyInt(7))),
     Frame(<<PyInt(5)>>, None_)}

(***************************************************************************)
(* Spec: a source is compiled and its probes are fired on host frames      *)
(***************************************************************************)
Init ==
    /\ source \in Sources
    /\ program = None_
    /\ probe = None_
    /\ frame = None_
    /\ pc = "source"
    /\ pool = <<>>
    /\ bytecode = <<>>
    /\ ip = 0
    /\ stack = <<>>
    /\ disp = None_
    /\ disp0 = None_
    /\ log = <<>>
    /\ calls = <<>>
    /\ pred = None_
    /\ result = None_
    /\ operands = None_
    /\ outcome = None_
    /\ budget = 0
    /\ compiler = None_
    /\ given = None_

\* python_bindings::compile
Compile ==
    /\ pc = "source"
    /\ program' = parse(source)
    /\ pc' = IF program'.r = "ok" THEN "compiled" ELSE "rejected"
    /\ UNCHANGED <<source, probe, frame, pool, bytecode, ip, stack, disp, disp0, log,
                   calls, pred, result, operands, outcome, budget, compiler, given>>

\* execute_probe up to the first execute call
FireProbe(p, f) ==
    /\ probe' = p
    /\ frame' = f
    /\ disp' = new_dispatcher(f)
    /\ disp0' = disp'
    /\ pool' = program.v.constant_pool
    /\ stack' = <<>>
    /\ ip' = 0
    /\ log' = <<>>
    /\ calls' = <<IF p.predicate # <<>> THEN "predicate" ELSE "body">>
    /\ pc' = IF p.predicate # <<>> THEN "predicate" ELSE "body"
    /\ bytecode' = IF p.predicate # <<>> THEN p.predicate ELSE p.body
    /\ UNCHANGED <<source, program, pred, result, operands, outcome, budget, compiler, given>>

Fire ==
    /\ pc = "compiled"
    /\ \E j \in 1..Len(program.v.probes) : \E f \in Frames :
          FireProbe(program.v.probes[j], f)

\* one iteration of the loop of execute; an Err ends execute_probe
ExecStep ==
    /\ pc \in {"predicate", "body"}
    /\ ip < Len(bytecode)
    /\ \E o \in ExecInstr(stack, ip, bytecode, pool, disp) :
          /\ stack' = o.stack
          /\ ip' = o.ip
          /\ disp' = o.disp
          /\ log' = log \o o.log
          /\ pc' = IF o.st = "run" THEN pc ELSE "returned"
          /\ result' = IF o.st = "run" THEN result
                       ELSE [r |-> o.st,
                             m |-> (IF pc = "predicate" THEN "Predicate error: "
                                    ELSE "Execution error: ") \o o.err]
          /\ pred' = IF o.st # "run" /\ pc = "predicate" THEN Some([r |-> o.st, m |-> o.err])
                     ELSE pred
    /\ UNCHANGED <<source, program, probe, frame, pool, bytecode, disp0, calls,
                   operands, outcome, budget, compiler, given>>

\* the predicate's execute returns Ok(value): the match of execute_probe
PredicateReturn ==
    /\ pc = "predicate"
    /\ ip = Len(bytecode)
    /\ LET fin == ExecFinish(stack)
           m == match_predicate_result(fin.value)
       IN  /\ stack' = fin.stack
           /\ pred' = Some(Ok(fin.value))
           /\ pc' = IF m = "continue" THEN "body" ELSE "returned"
           /\ bytecode' = IF m = "continue" THEN probe.body ELSE bytecode
           /\ ip' = IF m = "continue" THEN 0 ELSE ip
           /\ log' = IF m = "continue" THEN <<>> ELSE log
           /\ calls' = IF m = "continue" THEN Append(calls, "body") ELSE calls
           /\ disp0' = IF m = "continue" THEN disp ELSE disp0
           /\ result' = CASE m = "continue" -> result
                          [] m = "none" -> Ok(None_)
                          [] OTHER -> Err("Predicate must return a boolean value")
    /\ UNCHANGED <<source, program, probe, frame, pool, disp, operands, outcome, budget,
                   compiler, given>>

\* the body's execute returns Ok: the captures are taken and delivered
BodyReturn ==
    /\ pc = "body"
    /\ ip = Len(bytecode)
    /\ stack' = ExecFinish(stack).stack
    /\ disp' = take_captures(disp).disp
    /\ result' = deliver(take_captures(disp).captures)
    /\ pc' = "returned"
    /\ UNCHANGED <<source, program, probe, frame, pool, bytecode, ip, disp0, log, calls,
                   pred, operands, outcome, budget, compiler, given>>

\* PyProgram::to_bytes
Program_to_bytes ==
    /\ pc = "compiled"
    /\ outcome' = to_proto_bytes(program.v)
    /\ pc' = "serialized"
    /\ UNCHANGED <<source, program, probe, frame, pool, bytecode, ip, stack, disp, disp0,
                   log, calls, pred, result, operands, budget, compiler, given>>

\* the version a serialized program may carry
Versions == {0, 1, 2}

\* the bytes of a serialized program whose version field is v
WithVersion(bytes, v) ==
    LET Other(f) == f.num # 1 IN
    (IF v = 0 THEN <<>> ELSE <<[num |-> 1, wt |-> 0, v |-> v]>>) \o SelectSeq(bytes, Other)

\* PyProgram::from_bytes on the bytes written, or on those bytes with another version
Program_from_bytes ==
    /\ pc = "serialized"
    /\ \E v \in Versions :
          /\ operands' = WithVersion(outcome.v, v)
          /\ outcome' = LET p == from_proto_bytes(operands') IN
                        IF p.r = "err" THEN Err("Deserialization error: " \o p.m) ELSE p
    /\ pc' = "decoded"
    /\ UNCHANGED <<source, program, probe, frame, pool, bytecode, ip, stack, disp, disp0,
                   log, calls, pred, result, budget, compiler, given>>

Next ==
    \/ Compile
    \/ Fire
    \/ ExecStep
    \/ PredicateReturn
    \/ BodyReturn
    \/ Program_to_bytes
    \/ Program_from_bytes

Spec == Init /\ [][Next]_vars

(***************************************************************************)
(* SpecExecutor: a test creates one Executor over a MockDispatcher and     *)
(* calls execute on it, as the tests of executor.rs do.  The bytecode of a *)
(* call is a concatenation of fragments: well-formed instructions, a       *)
(* truncated one, an index outside the pool and an unknown opcode byte.    *)
(***************************************************************************)
MaxFragments == 3

MaxCalls == 2

RawPool ==
    <<CInt(7), CInt(IntMax), CIdentifier("count"), CIdentifier("nosuch"),
      CFunctionName("capture")>>

\* the same pool without its last two constants
ShortPool == SubSeq(RawPool, 1, 3)

Fragments ==
    {<<OpPushConst, 0, 0>>, <<OpPushConst, 1, 0>>, <<OpPushConst, 3, 0>>,
     <<OpPushConst, 0>>, <<OpPop>>, <<OpAdd>>, <<OpLoadVar, 2, 0>>, <<OpLoadVar, 3, 0>>,
     <<OpStoreVar, 2, 0>>, <<OpCallFunc, 4, 0, 1>>, <<255>>}

RECURSIVE Codes(_)
Codes(n) == IF n = 0 THEN {<<>>} ELSE {c \o f : c \in Codes(n - 1), f \in Fragments}

\* Executor::execute on an Executor whose stack is `stack`, from index ip to
\* the return: the set of results the call can have
RECURSIVE execute_loop(_, _, _, _, _)
execute_loop(stk, i, code, consts, d) ==
    IF i >= Len(code) THEN {Ok(ExecFinish(stk).value)}
    ELSE UNION {IF o.st = "run" THEN execute_loop(o.stack, o.ip, code, consts, o.disp)
                ELSE {[r |-> o.st, m |-> o.err]}
                : o \in ExecInstr(stk, i, code, consts, d)}

\* execute on an Executor fresh from Executor::new
execute(code, consts, d) == execute_loop(<<>>, 0, code, consts, d)

InitExecutor ==
    /\ source = None_
    /\ program = None_
    /\ probe = None_
    /\ frame = None_
    /\ pc = "idle"
    /\ pool \in {RawPool, ShortPool}
    /\ bytecode = <<>>
    /\ ip = 0
    /\ stack = <<>>
    /\ disp = MockDispatcher_new
    /\ disp0 = None_
    /\ log = <<>>
    /\ calls = <<>>
    /\ pred = None_
    /\ result = None_
    /\ operands = None_
    /\ outcome = None_
    /\ budget = MaxFragments
    /\ compiler = None_
    /\ given = None_

\* executor.execute(&code) is called
Executor_execute ==
    /\ pc = "idle"
    /\ Len(calls) < MaxCalls
    /\ \E n \in 0..budget : \E code \in Codes(n) :
          /\ bytecode' = code
          /\ budget' = budget - n
    /\ ip' = 0
    /\ log' = <<>>
    /\ disp0' = disp
    /\ calls' = Append(calls, "execute")
    /\ result' = None_
    /\ pc' = "running"
    /\ UNCHANGED <<source, program, probe, frame, pool, stack, disp, pred, operands, outcome,
                   compiler, given>>

\* one iteration of the loop of execute
Executor_step ==
    /\ pc = "running"
    /\ ip < Len(bytecode)
    /\ \E o \in ExecInstr(stack, ip, bytecode, pool, disp) :
          /\ stack' = o.stack
          /\ ip' = o.ip
          /\ disp' = o.disp
          /\ log' = log \o o.log
          /\ pc' = IF o.st = "run" THEN pc ELSE "stopped"
          /\ result' = IF o.st = "run" THEN result ELSE [r |-> o.st, m |-> o.err]
    /\ UNCHANGED <<source, program, probe, frame, pool, bytecode, disp0, calls, pred,
                   operands, outcome, budget, compiler, given>>

\* the loop has ended: the final result is popped
Executor_finish ==
    /\ pc = "running"
    /\ ip = Len(bytecode)
    /\ LET fin == ExecFinish(stack) IN
          /\ stack' = fin.stack
          /\ result' = Ok(fin.value)
    /\ pc' = "stopped"
    /\ UNCHANGED <<source, program, probe, frame, pool, bytecode, ip, disp, disp0, log, calls,
                   pred, operands, outcome, budget, compiler, given>>

\* the call has returned Ok or Err to the test; the Executor lives on
Executor_return ==
    /\ pc = "stopped"
    /\ result.r # "panic"
    /\ pc' = "idle"
    /\ bytecode' = <<>>
    /\ ip' = 0
    /\ log' = <<>>
    /\ UNCHANGED <<source, program, probe, frame, pool, stack, disp, disp0, calls, pred,
                   result, operands, outcome, budget, compiler, given>>

NextExecutor == Executor_execute \/ Executor_step \/ Executor_finish \/ Executor_return

SpecExecutor == InitExecutor /\ [][NextExecutor]_vars

\* the loop of execute is not suspended: a call that has begun runs on
SpecExecutorFair ==
    SpecExecutor /\ WF_vars(Executor_step) /\ WF_vars(Executor_finish)

(***************************************************************************)
(* SpecOps: binary_op_default applied to a pair of operands                *)
(***************************************************************************)
MaxOperand == 2

OperandValues ==
    {VInt(i) : i \in -MaxOperand..MaxOperand} \cup {VInt(IntMin), VInt(IntMax)}
    \cup {VFloat(FRat(n, 2)) : n \in -MaxOperand..MaxOperand}
    \cup {VFloat(FInf(1)), VFloat(FInf(-1)), VFloat(FNaN)}
    \cup {VString("a"), VBool(TRUE), VNone}

\* enum BinaryOp and enum ComparisonOp
BinaryOps == {"Add", "Sub", "Mul", "Div", "Mod"}

ComparisonOps == {"Eq", "Ne", "Lt", "Gt", "Le", "Ge"}

InitOps ==
    /\ source = None_
    /\ program = None_
    /\ probe = None_
    /\ frame = None_
    /\ pc = "operands"
    /\ pool = <<>>
    /\ bytecode = <<>>
    /\ ip = 0
    /\ stack = <<>>
    /\ disp = None_
    /\ disp0 = None_
    /\ log = <<>>
    /\ calls = <<>>
    /\ pred = None_
    /\ result = None_
    /\ operands \in [op : BinaryOps \cup ComparisonOps,
                     left : OperandValues, right : OperandValues]
    /\ outcome = None_
    /\ budget = 0
    /\ compiler = None_
    /\ given = None_

\* binary_op_default(op, &left, &right) is called
Apply_binary_op ==
    /\ pc = "operands"
    /\ operands.op \in BinaryOps
    /\ \E res \in binary_op_default(operands.op, operands.left, operands.right) :
          outcome' = res
    /\ pc' = "applied"
    /\ UNCHANGED <<source, program, probe, frame, pool, bytecode, ip, stack, disp, disp0,
                   log, calls, pred, result, operands, budget, compiler, given>>

\* comparison_op_default(op, &left, &right) is called
Apply_comparison_op ==
    /\ pc = "operands"
    /\ operands.op \in ComparisonOps
    /\ outcome' = comparison_op_default(operands.op, operands.left, operands.right)
    /\ pc' = "applied"
    /\ UNCHANGED <<source, program, probe, frame, pool, bytecode, ip, stack, disp, disp0,
                   log, calls, pred, result, operands, budget, compiler, given>>

NextOps == Apply_binary_op \/ Apply_comparison_op

SpecOps == InitOps /\ [][NextOps]_vars

(***************************************************************************)
(* SpecCompiler: a Compiler interns constants and compiles one AstProgram. *)
(* It is either fresh from Compiler::new or has already interned all but   *)
(* two of the constants its pool can hold.                                 *)
(***************************************************************************)
MaxInterned == 2

InternConstants == {CInt(7), CString("a"), CIdentifier("a")}

\* the Compiler after add_or_get_constant of the n smallest Int constants
Interned(n) ==
    [constant_pool |-> [k \in 1..n |-> CInt(IntMin + k - 1)],
     bytecode |-> <<>>,
     constant_map |-> [c \in {CInt(IntMin + k - 1) : k \in 1..n} |-> c.i - IntMin]]

NearlyFull == Interned(U16Max - 2)

\* a probe whose body is one capture statement of n arguments
ManyPositional(n) ==
    <<AstProbe(AstProbeSpec("fn", <<"t">>, [point |-> "Entry"]), None_,
               <<SCapture(FALSE, FALSE, [k \in 1..n |-> EInt(k % 2)])>>)>>

ManyNamed(n) ==
    <<AstProbe(AstProbeSpec("fn", <<"t">>, [point |-> "Entry"]), None_,
               <<SCapture(TRUE, TRUE, [k \in 1..n |-> NamedArg("k", EIdent("arg0"))])>>)>>

CompilerSources ==
    {E1, NamedObject, ArithSource(E8), ArithSource("7 + 3 * 2"), "fn:t:entry { capture(args, args, args, args, args); }",
     LogicalSource("len(args)", "&&", "arg1"), "fn:t:entry { capture(1); sample 1/2; }",
     "fn:a.b:exit / !(args[0].x == None) / { send(1.5, \"s\", True); }"}

Asts ==
    {parse_program(Tokens(s, 1)).v : s \in CompilerSources}
    \cup {ManyPositional(255), ManyPositional(256), ManyNamed(127), ManyNamed(128)}

InitCompiler ==
    /\ source = None_
    /\ program = None_
    /\ probe = None_
    /\ frame = None_
    /\ pc = "compiler"
    /\ pool = <<>>
    /\ bytecode = <<>>
    /\ ip = 0
    /\ stack = <<>>
    /\ disp = None_
    /\ disp0 = None_
    /\ log = <<>>
    /\ calls = <<>>
    /\ pred = None_
    /\ result = None_
    /\ operands = None_
    /\ outcome = None_
    /\ budget = MaxInterned
    /\ compiler \in {Compiler_new, NearlyFull}
    /\ given = None_

\* compiler.add_or_get_constant(constant) is called
Compiler_add_or_get_constant ==
    /\ pc = "compiler"
    /\ budget > 0
    /\ \E constant \in InternConstants :
          LET a == add_or_get_constant(compiler, constant) IN
          /\ operands' = constant
          /\ outcome' = [r |-> a.r, index |-> a.index]
          /\ compiler' = a.cs
          /\ pc' = IF a.r = "ok" THEN pc ELSE "panicked"
    /\ budget' = budget - 1
    /\ UNCHANGED <<source, program, probe, frame, pool, bytecode, ip, stack, disp, disp0,
                   log, calls, pred, result, given>>

\* compiler.compile(ast) is called
Compiler_compile ==
    /\ pc = "compiler"
    /\ \E a \in Asts :
          LET c == compiler_call("compile", compiler, a, 0, <<>>) IN
          /\ given' = a
          /\ program' = IF c.r = "ok" THEN Ok(c.program) ELSE [r |-> c.r, m |-> c.m]
          /\ compiler' = c.cs
          /\ pc' = CASE c.r = "ok" -> "compiled" [] c.r = "err" -> "rejected"
                      [] OTHER -> "panicked"
    /\ UNCHANGED <<source, probe, frame, pool, bytecode, ip, stack, disp, disp0, log, calls,
                   pred, result, operands, outcome, budget>>

NextCompiler == Compiler_add_or_get_constant \/ Compiler_compile

SpecCompiler == InitCompiler /\ [][NextCompiler]_vars

(***************************************************************************)
(* SpecReuse: compile is called again and again on one Compiler, which     *)
(* keeps its constant_pool, constant_map and bytecode between the calls.   *)
(***************************************************************************)
MaxCompiles == 2

ReuseAsts ==
    {parse_program(Tokens(s, 1)).v : s \in CompilerSources \cup {E3, E4, E5, TwoProbes}}

InitReuse ==
    /\ source = None_
    /\ program = None_
    /\ probe = None_
    /\ frame = None_
    /\ pc = "compiler"
    /\ pool = <<>>
    /\ bytecode = <<>>
    /\ ip = 0
    /\ stack = <<>>
    /\ disp = None_
    /\ disp0 = None_
    /\ log = <<>>
    /\ calls = <<>>
    /\ pred = None_
    /\ result = None_
    /\ operands = None_
    /\ outcome = None_
    /\ budget = MaxCompiles
    /\ compiler = Compiler_new
    /\ given = None_

\* compiler.compile(ast) is called on the Compiler of the earlier calls;
\* log keeps how each earlier call ended
Compiler_compile_reused ==
    /\ pc \in {"compiler", "compiled", "rejected"}
    /\ budget > 0
    /\ \E a \in ReuseAsts :
          LET c == compiler_call("compile", compiler, a, 0, <<>>) IN
          /\ given' = a
          /\ program' = IF c.r = "ok" THEN Ok(c.program) ELSE [r |-> c.r, m |-> c.m]
          /\ compiler' = c.cs
          /\ pc' = CASE c.r = "ok" -> "compiled" [] c.r = "err" -> "rejected"
                      [] OTHER -> "panicked"
    /\ log' = IF pc = "compiler" THEN log ELSE Append(log, pc)
    /\ budget' = budget - 1
    /\ UNCHANGED <<source, probe, frame, pool, bytecode, ip, stack, disp, disp0, calls,
                   pred, result, operands, outcome>>

NextReuse == Compiler_compile_reused

SpecReuse == InitReuse /\ [][NextReuse]_vars

(***************************************************************************)
(* SpecLexer: next_token is called on a Lexer until it yields Eof, as in   *)
(* lex_all and the lexer fuzz target.  ip is the position of `current`,    *)
(* log the tokens yielded with the positions before and after each.        *)
(* next_token depends on the source and the position only: calls holds     *)
(* what it returns at each position of the source, evaluated once.         *)
(***************************************************************************)
MaxLexLen == 3

LexAlphabet == {" ", "#", "\n", "/", "*", "=", "\"", "\\", "1", "e", "$"}

RECURSIVE Strings(_)
Strings(n) ==
    IF n = 0 THEN {""}
    ELSE LET shorter == Strings(n - 1) IN
         shorter \cup {s \o c : s \in shorter, c \in LexAlphabet}

LexSources ==
    Strings(MaxLexLen)
    \cup {"/* a */ 1.5e+3 $req.x \"a\\\"b\" # c", "$request != 'x\\", "1e", "1.e5 2.5E-",
          "/* unclosed *", "a /* b */ c // d", "& | @ ~ ?", "x <= y >= z && !w || v",
          "99999 32768", "fn:m.f:entry+1 { capture(a=1); }", "  \t\r\n  "}

InitLexer ==
    /\ source = ""
    /\ program = None_
    /\ probe = None_
    /\ frame = None_
    /\ pc = "source"
    /\ pool = <<>>
    /\ bytecode = <<>>
    /\ ip = 1
    /\ stack = <<>>
    /\ disp = None_
    /\ disp0 = None_
    /\ log = <<>>
    /\ calls = <<>>
    /\ pred = None_
    /\ result = None_
    /\ operands = None_
    /\ outcome = None_
    /\ budget = 0
    /\ compiler = None_
    /\ given = None_

\* Lexer::new(source)
Lexer_new ==
    /\ pc = "source"
    /\ source' \in LexSources
    /\ ip' = 1
    /\ calls' = [i \in 1..(Len(source') + 1) |-> next_token(source', i)]
    /\ pc' = "lexing"
    /\ UNCHANGED <<program, probe, frame, pool, bytecode, stack, disp, disp0, log,
                   pred, result, operands, outcome, budget, compiler, given>>

\* lexer.next_token() is called; the loop ends with the Eof token
Lexer_next_token ==
    /\ pc = "lexing"
    /\ LET t == calls[ip] IN
       /\ log' = Append(log, [tok |-> t.tok, from |-> ip, to |-> t.i])
       /\ ip' = t.i
       /\ pc' = IF t.tok.k = "Eof" THEN "eof" ELSE "lexing"
    /\ UNCHANGED <<source, program, probe, frame, pool, bytecode, stack, disp, disp0, calls,
                   pred, result, operands, outcome, budget, compiler, given>>

NextLexer == Lexer_new \/ Lexer_next_token

\* the loop calling next_token is not suspended
SpecLexer == InitLexer /\ [][NextLexer]_vars /\ WF_vars(Lexer_next_token)

(***************************************************************************)
(* Properties of a firing (Spec)                                           *)
(***************************************************************************)
Fired == pc \in {"predicate", "body", "returned"}

BodyExecuted == \E j \in 1..Len(calls) : calls[j] = "body"

PredicatePassed == probe.predicate = <<>> \/ pred = Some(Ok(VBool(TRUE)))

\* a capture event was handed back to the host
CaptureDelivered == pc = "returned" /\ result.r = "ok" /\ result.v.some

\* C1: in every firing the body is executed if and only if the predicate is
\* empty or its execution returned Bool(true); when the predicate returns
\* Bool(false), a non-Bool value or an error, the body is never executed and
\* no capture is delivered.
C1_BodyIffPredicatePasses ==
    Fired =>
        /\ BodyExecuted => PredicatePassed
        /\ (pc = "returned" /\ PredicatePassed) => BodyExecuted
        /\ ~PredicatePassed => (~BodyExecuted /\ ~CaptureDelivered)

\* a firing whose predicate returned a value that is not a Bool has ended
C1_Witness ==
    /\ pc = "returned"
    /\ pred.some
    /\ pred.v.r = "ok"
    /\ pred.v.v.t = "Int"
    /\ ~BodyExecuted

\* the statements of the fired probe, as parsed from the source
BodyAst ==
    LET ast == parse_program(Tokens(source, 1)).v
        j == CHOOSE k \in 1..Len(ast) : program.v.probes[k] = probe
    IN  ast[j].body

\* the offsets of the body bytecode at which a statement's instructions end
StatementEnds ==
    {Len(compiler_call("compile_stmts", Compiler_new, SubSeq(BodyAst, 1, k), 1, <<>>).cs.bytecode) :
        k \in 0..Len(BodyAst)}

\* C2: a compiler-produced predicate whose dispatcher operations all succeed
\* reaches the end of its bytecode with exactly one value on the stack; in a
\* compiler-produced body the stack is empty after each statement's
\* instructions and at the end of the body.
C2_StackDiscipline ==
    /\ (pc = "predicate" /\ ip = Len(bytecode)) => Len(stack) = 1
    /\ (pc = "returned" /\ calls = <<"predicate">> /\ pred.v.r # "ok") =>
           (log # <<>> /\ ~log[Len(log)].ok)
    /\ (pc = "body" /\ ip \in StatementEnds) => stack = <<>>
    /\ pc = "body" => Len(bytecode) \in StatementEnds

\* a body that followed a predicate stands between two of its statements
C2_Witness ==
    /\ pc = "body"
    /\ calls = <<"predicate", "body">>
    /\ ip \in StatementEnds
    /\ 0 < ip
    /\ ip < Len(bytecode)

\* the capture and send calls the body has executed
CaptureCalls == SelectSeq(log, LAMBDA c : c.op = "call_function" /\ c.name \in {"capture", "send"})

\* the events handed back to the host by a finished firing
Delivered == IF result.v.some THEN <<result.v.v>> ELSE <<>>

\* C4: the capture events delivered for a firing whose body ran to the end
\* are exactly the capture/send calls the body executed, one event per call.
C4_OneEventPerCaptureCall ==
    (pc = "returned" /\ BodyExecuted /\ result.r = "ok") =>
        Len(Delivered) = Len(CaptureCalls)

\* C5: after `$req.f = e` a read of `$req.f` in the same firing yields the
\* value of e; firing E1 with arg0 = 150 and arg1 = "u@x.com" delivers exactly
\* one capture {user_id: 150, email: "u@x.com"}.
C5_RequestStoreRoundTrip ==
    /\ (source = E1 /\ pc = "returned"
        /\ frame = Frame(<<PyInt(150), PyStr("u@x.com")>>, None_)) =>
           result = Ok(Some(PyDict([k \in {"user_id", "email"} |->
                                      IF k = "user_id" THEN PyInt(150) ELSE PyStr("u@x.com")])))
    /\ (source = ReqRoundTrip /\ pc = "returned") =>
           result = Ok(Some(PyDict([k \in {"arg0"} |-> PyInt(7)])))

\* the dispatcher operations that evaluating an operand of the family invokes
OperandCalls(a) ==
    CASE a \in {"arg0", "arg1"} -> <<<<"load_variable", a>>>>
      [] a = "len(args)" -> <<<<"load_variable", "args">>, <<"call_function", "len">>>>
      [] OTHER -> <<>>

\* whether the frame gives the operand a value
OperandDefined(a, f) == a = "arg1" => Len(f.locals["args"].items) >= 2

\* the truthiness of the operand's value in the frame
OperandTruthy(a, f) ==
    LET args == f.locals["args"].items IN
    CASE a = "arg0" -> args[1].i # 0
      [] a = "arg1" -> args[2].py = "str" /\ args[2].s # ""
      [] a = "len(args)" -> Len(args) # 0
      [] a = "True" -> TRUE
      [] OTHER -> FALSE

LogCalls == [j \in 1..Len(log) |-> <<log[j].op, log[j].name>>]

\* C7: `a && b` and `a || b` execute all instructions of a and then all of b
\* whatever the value of a, and the result is Bool(truthy(a) and truthy(b)),
\* respectively Bool(truthy(a) or truthy(b)).
C7_NoShortCircuit ==
    \A a \in LogicalOperands, b \in LogicalOperands, op \in {"&&", "||"} :
        (source = LogicalSource(a, op, b) /\ pc = "returned") =>
            IF OperandDefined(a, frame) /\ OperandDefined(b, frame)
            THEN /\ LogCalls = OperandCalls(a) \o OperandCalls(b)
                                  \o <<<<"call_function", "capture">>>>
                 /\ result = Ok(Some(PyDict([k \in {"arg0"} |-> PyBool(
                        IF op = "&&" THEN OperandTruthy(a, frame) /\ OperandTruthy(b, frame)
                        ELSE OperandTruthy(a, frame) \/ OperandTruthy(b, frame))])))
            ELSE /\ result.r = "err"
                 /\ LogCalls = IF OperandDefined(a, frame)
                               THEN OperandCalls(a) \o OperandCalls(b)
                               ELSE OperandCalls(a)

\* the right operand of `0 && arg1` was evaluated although the left is falsy
C7_Witness ==
    /\ source = LogicalSource("0", "&&", "arg1")
    /\ pc = "returned"
    /\ result = Ok(Some(PyDict([k \in {"arg0"} |-> PyBool(FALSE)])))
    /\ LogCalls = <<<<"load_variable", "arg1">>, <<"call_function", "capture">>>>

\* C10: the source `fn:t:entry / 10/0 > 1 / { }` is accepted by the parser and
\* the compiler, and firing its probe ends with a division-by-zero error and
\* no capture.
C10_E6AcceptedAndFails ==
    (source = E6 /\ pc # "source") =>
        /\ program.r = "ok"
        /\ pc = "returned" => (result.r = "err" /\ ~BodyExecuted)

\* C10 (amended): the source `fn:t:entry / 10/0 > 1 / { }` is rejected by the
\* parser, because the `/` after 10 stands at nesting depth 0 and closes the
\* predicate; with the division parenthesised, `fn:t:entry / (10/0) > 1 / { }`
\* is accepted, and firing its probe ends with the error
\* "Predicate error: Division by zero", no body execution and no capture.
C10_E6RejectedParenthesisedFails ==
    /\ (source = E6 /\ pc # "source") => (pc = "rejected" /\ program.r = "err")
    /\ (source = E6Paren /\ pc # "source") => program.r = "ok"
    /\ (source = E6Paren /\ pc = "returned") =>
           /\ result = Err("Predicate error: Division by zero")
           /\ ~BodyExecuted

\* the parenthesised source was fired and its predicate failed
C10_Witness ==
    /\ source = E6Paren
    /\ pc = "returned"
    /\ result.r = "err"
    /\ log # <<>>
    /\ log[Len(log)].op = "binary_op"

(***************************************************************************)
(* Properties of execute (SpecExecutor, SpecExecutorFair)                  *)
(***************************************************************************)
\* C3: every call of execute starts from an empty stack, and the result of a
\* call on an Executor that has served earlier calls is a result the same
\* bytecode, pool and dispatcher give on an Executor fresh from new.
C3_CallsStartFromEmptyStack ==
    /\ (pc = "running" /\ ip = 0) => stack = <<>>
    /\ pc = "stopped" => result \in execute(bytecode, pool, disp0)

\* the bytes an instruction occupies, opcode included
InstrLen(op) ==
    CASE op \in {OpPushConst, OpLoadVar, OpStoreVar, OpGetAttr, OpSetAttr} -> 3
      [] op = OpCallFunc -> 4
      [] OTHER -> 1

\* the offsets at which the instructions of the bytecode start, from offset i on
RECURSIVE InstrStarts(_, _)
InstrStarts(code, i) ==
    IF i >= Len(code) THEN {}
    ELSE {i} \cup (IF code[i + 1] \in Opcodes THEN InstrStarts(code, i + InstrLen(code[i + 1]))
                   ELSE {})

\* the dispatcher operation an opcode stands for ("" when it has none)
DispatchOp(op) ==
    CASE op = OpLoadVar -> "load_variable"
      [] op = OpStoreVar -> "store_variable"
      [] op \in {OpAdd, OpSub, OpMul, OpDiv, OpMod} -> "binary_op"
      [] op \in {OpEq, OpNe, OpLt, OpGt, OpLe, OpGe} -> "comparison_op"
      [] op = OpGetAttr -> "get_attribute"
      [] op = OpSetAttr -> "set_attribute"
      [] op = OpGetItem -> "get_item"
      [] op = OpCallFunc -> "call_function"
      [] OTHER -> ""

DispatchStarts == {o \in InstrStarts(bytecode, 0) : DispatchOp(bytecode[o + 1]) # ""}

\* C6: within one execute call the dispatcher operations are invoked in the
\* order of the instructions in the bytecode, one per dispatching instruction
\* passed, and once an instruction has failed no dispatcher operation of a
\* later instruction is invoked.
C6_DispatchInBytecodeOrder ==
    pc \in {"running", "stopped"} =>
        /\ \A j \in 1..Len(log) :
              /\ log[j].at \in DispatchStarts
              /\ log[j].op = DispatchOp(bytecode[log[j].at + 1])
              /\ log[j].at <= ip
              /\ j < Len(log) => (log[j].ok /\ log[j].at < log[j + 1].at)
              /\ log[j].ok => log[j].at < ip
        /\ \A o \in DispatchStarts : o < ip => \E j \in 1..Len(log) : log[j].at = o
        /\ (log # <<>> /\ ~log[Len(log)].ok) =>
              (pc = "stopped" /\ result.r # "ok" /\ log[Len(log)].at = ip)

\* a call has stopped at a failed dispatcher operation that followed a
\* successful one, with a dispatching instruction still ahead in the bytecode
C6_Witness ==
    /\ pc = "stopped"
    /\ result.r = "err"
    /\ Len(log) = 2
    /\ ~log[2].ok
    /\ \E o \in DispatchStarts : o > ip

\* the values the instruction at offset i takes from the stack
Needs(code, i) ==
    LET op == code[i + 1] IN
    CASE op \in {OpPop, OpDup, OpStoreVar, OpNot, OpGetAttr} -> 1
      [] op \in {OpAdd, OpSub, OpMul, OpDiv, OpMod, OpEq, OpNe, OpLt, OpGt, OpLe, OpGe,
                 OpAnd, OpOr, OpGetItem, OpSetAttr} -> 2
      [] op = OpCallFunc -> code[i + 4]
      [] OTHER -> 0

UnknownOpcode == bytecode[ip + 1] \notin Opcodes

TruncatedOperand == ~UnknownOpcode /\ ip + InstrLen(bytecode[ip + 1]) > Len(bytecode)

IndexOutsidePool ==
    /\ ~UnknownOpcode
    /\ ~TruncatedOperand
    /\ InstrLen(bytecode[ip + 1]) >= 3
    /\ bytecode[ip + 2] + 256 * bytecode[ip + 3] >= Len(pool)

StackUnderflow == ~UnknownOpcode /\ ~TruncatedOperand /\ Len(stack) < Needs(bytecode, ip)

\* the instruction at ip is malformed or needs more values than the stack holds
Faulty == UnknownOpcode \/ TruncatedOperand \/ IndexOutsidePool \/ StackUnderflow

\* a panic has come out of a dispatcher operation, not out of the executor
PanicOnlyFromDispatcher ==
    (pc = "stopped" /\ result.r = "panic") =>
        (log # <<>> /\ ~log[Len(log)].ok /\ log[Len(log)].at = ip)

\* C8: for every byte sequence and pool, and a dispatcher whose operations
\* return, execute terminates with a value or an error; an unknown opcode
\* byte, an operand running past the end of the bytecode, a constant index
\* outside the pool and a pop or call needing more values than the stack
\* holds each end the call with an error, never with a panic.
C8_TerminatesWithValueOrError ==
    /\ [][(pc = "running" /\ ip < Len(bytecode) /\ Faulty) =>
             (pc' = "stopped" /\ result'.r = "err")]_vars
    /\ [](ip <= Len(bytecode) /\ PanicOnlyFromDispatcher)
    /\ (pc = "running") ~> (pc = "stopped")

\* a call has ended with an error at a PushConst whose operand is cut short
C8_Witness ==
    /\ pc = "stopped"
    /\ result.r = "err"
    /\ ip < Len(bytecode)
    /\ bytecode[ip + 1] = OpPushConst
    /\ ip + 3 > Len(bytecode)

(***************************************************************************)
(* Properties of binary_op_default (SpecOps)                               *)
(***************************************************************************)
\* C9: for every numeric left operand, Div and Mod by a right operand that is
\* Int 0 or Float 0.0 return an error, never a value and never a panic.
C9_ZeroDivisorIsError ==
    (/\ pc = "applied"
     /\ operands.op \in {"Div", "Mod"}
     /\ IsNumeric(operands.left)
     /\ IsNumeric(operands.right)
     /\ FIsZero(Widen(operands.right))) => outcome.r = "err"

(***************************************************************************)
(* Properties of capture events (Spec)                                     *)
(***************************************************************************)
\* the payload {"arg0": v0, ..., "arg(n-1)": v(n-1)}
PositionalPayload(values) ==
    [k \in {"arg" \o IntToStr(j - 1) : j \in 1..Len(values)} |->
        values[CHOOSE j \in 1..Len(values) : k = "arg" \o IntToStr(j - 1)]]

\* the body has run to its end and its events are still with the dispatcher
BodyDone == pc = "body" /\ ip = Len(bytecode)

\* C11: a capture/send statement written with n >= 0 positional arguments of
\* values v0..v(n-1) records an event with exactly the payload
\* {"arg0": v0, ..., "arg(n-1)": v(n-1)}, the empty payload when n = 0.
C11_PositionalPayload ==
    \A c \in PositionalCases :
        (source = c.text /\ BodyDone) => disp.captures = <<PositionalPayload(c.values)>>

\* the values of the named arguments of a source of NamedSources in frame f
NamedValues(text, f) ==
    IF text = E4 THEN [k \in {"user_id", "event"} |->
                          IF k = "user_id" THEN VInt(1) ELSE VString("login")]
    ELSE [k \in {"n", "a"} |->
             IF k = "n" THEN VInt(f.locals["args"].items[1].i)
             ELSE VObject(PyRef(f.locals["args"]))]

\* C12: a capture/send statement written with named arguments k1=v1, ...,
\* kn=vn of pairwise distinct names records an event with exactly the keys
\* k1..kn, each ki mapped to the value of vi.
C12_NamedPayload ==
    \A text \in NamedSources :
        (source = text /\ BodyDone) => disp.captures = <<NamedValues(text, frame)>>

(***************************************************************************)
(* Properties of the default arithmetic and comparisons (SpecOps)          *)
(***************************************************************************)
\* the mathematical result of an operation on two integers, divisor non-zero
Exact(op, l, r) ==
    CASE op = "Add" -> l + r
      [] op = "Sub" -> l - r
      [] op = "Mul" -> l * r
      [] op = "Div" -> TruncDiv(l, r)
      [] op = "Mod" -> TruncRem(l, r)

\* C13: on Int operands Add, Sub, Mul, and Div and Mod by a non-zero divisor,
\* return the Int of wrapping signed arithmetic; no pair of Int operands, the
\* minimum value divided or reduced by -1 included, causes a panic.
C13_IntArithmeticWraps ==
    (/\ pc = "applied"
     /\ operands.left.t = "Int"
     /\ operands.right.t = "Int"
     /\ ~(operands.op \in {"Div", "Mod"} /\ operands.right.i = 0)) =>
        outcome = Ok(VInt(Wrap(Exact(operands.op, operands.left.i, operands.right.i))))

\* the operands of an ordering comparison that has no defined order
Unordered(l, r) ==
    \/ l.t = "None" \/ r.t = "None"
    \/ l.t = "Bool" /\ r.t = "Bool"
    \/ l.t # r.t /\ ~(IsNumeric(l) /\ IsNumeric(r))

\* C14: the ordering comparisons Lt, Gt, Le and Ge return an error, never a
\* Bool, whenever either operand is None, both operands are Bool, or the
\* operands have different types other than an Int/Float pair.
C14_UnorderedIsError ==
    (/\ pc = "applied"
     /\ operands.op \in {"Lt", "Gt", "Le", "Ge"}
     /\ Unordered(operands.left, operands.right)) => outcome.r = "err"

C14_Witness ==
    /\ pc = "applied"
    /\ operands.op = "Lt"
    /\ operands.left = VString("a")
    /\ operands.right = VInt(1)
    /\ outcome.r = "err"
    /\ C14_UnorderedIsError

(***************************************************************************)
(* Properties of compiled arithmetic (Spec)                                *)
(***************************************************************************)
\* the value of a syntax tree of ArithCases, left operand as left argument
RECURSIVE ArithValue(_)
ArithValue(t) ==
    IF t.o = "lit" THEN t.n
    ELSE LET l == ArithValue(t.l)
             r == ArithValue(t.r)
         IN  Wrap(CASE t.o = "+" -> l + r
                    [] t.o = "-" -> l - r
                    [] t.o = "*" -> l * r
                    [] t.o = "/" -> TruncDiv(l, r)
                    [] t.o = "%" -> TruncRem(l, r))

\* the body has evaluated the argument of its capture call
ArgumentEvaluated ==
    pc = "body" /\ ip < Len(bytecode) /\ bytecode[ip + 1] = OpCallFunc

\* C15: for every arithmetic expression over Int literals built from + - * / %
\* and parentheses in which no divisor is zero, executing the compiled
\* bytecode yields the value of the expression under the parser's precedence
\* and left-associativity, the left operand of each operator as its left
\* argument; (42 + 8) * 2 - 10 / 2 yields Int(95).
C15_CompiledArithmeticValue ==
    \A c \in ArithCases :
        source = ArithSource(c.text) =>
            /\ pc # "rejected"
            /\ ArgumentEvaluated => stack = <<VInt(ArithValue(c.tree))>>
            /\ pc = "returned" => result.r = "ok"

(***************************************************************************)
(* Properties of the executor stack (SpecExecutor)                         *)
(***************************************************************************)
\* C16: with a dispatcher that never returns an Object, no Object value is on
\* the executor stack or in the result of execute, whatever the bytecode and
\* the constant pool: pushing a constant yields Bool, Int, Float, String or
\* None, or fails.
C16_NoObjectFromBytecode ==
    /\ \A j \in 1..Len(stack) : stack[j].t \in {"Bool", "Int", "Float", "String", "None"}
    /\ (pc = "stopped" /\ result.r = "ok") =>
           result.v.t \in {"Bool", "Int", "Float", "String", "None"}

\* a PushConst of a name constant has failed and has left the stack as it was
C16_Witness ==
    /\ pc = "stopped"
    /\ result.r = "err"
    /\ ip + 3 <= Len(bytecode)
    /\ bytecode[ip + 1] = OpPushConst
    /\ bytecode[ip + 2] < Len(pool)
    /\ pool[bytecode[ip + 2] + 1].k = "Identifier"
    /\ stack # <<>>
    /\ C16_NoObjectFromBytecode

(***************************************************************************)
(* Properties of compiled programs (SpecCompiler)                          *)
(***************************************************************************)
\* the argument counts of the calls a list of expressions makes, in the order
\* in which the calls are emitted; after the arguments of a call the list
\* holds its count
RECURSIVE CallCounts(_)
CallCounts(work) ==
    IF work = <<>> THEN <<>>
    ELSE IF Len(work) > 1
    THEN CallCounts(SubSeq(work, 1, Len(work) \div 2))
         \o CallCounts(SubSeq(work, Len(work) \div 2 + 1, Len(work)))
    ELSE LET h == work[1] IN
         CASE h.e = "count" -> <<h.n>>
           [] h.e = "Binary" -> CallCounts(<<h.left, h.right>>)
           [] h.e = "Unary" -> CallCounts(<<h.expr>>)
           [] h.e = "FieldAccess" -> CallCounts(<<h.object>>)
           [] h.e = "IndexAccess" -> CallCounts(<<h.object, h.index>>)
           [] h.e = "Call" -> CallCounts(h.args \o <<[e |-> "count", n |-> Len(h.args)]>>)
           [] OTHER -> <<>>

\* the same for the statements of a body from the j-th on; a named argument
\* is compiled to two arguments, its name and its value
RECURSIVE BodyCallCounts(_, _)
BodyCallCounts(body, j) ==
    IF j > Len(body) THEN <<>>
    ELSE LET s == body[j] IN
         (CASE s.s = "Assignment" -> CallCounts(<<s.value>>)
            [] s.s = "Capture" /\ s.named ->
                  CallCounts([k \in 1..Len(s.items) |-> s.items[k].value])
                  \o <<2 * Len(s.items)>>
            [] s.s = "Capture" /\ ~s.named -> CallCounts(s.items) \o <<Len(s.items)>>
            [] OTHER -> <<>>)
         \o BodyCallCounts(body, j + 1)

\* the offsets of the first n instructions of the bytecode from offset i on,
\* in order, and the offset after the last of them
RECURSIVE Decode(_, _, _)
Decode(code, i, n) ==
    IF n = 0 \/ i >= Len(code) THEN [starts |-> <<>>, end |-> i]
    ELSE IF n = 1 THEN [starts |-> <<i>>, end |-> i + InstrLen(code[i + 1])]
    ELSE LET a == Decode(code, i, n \div 2)
             b == Decode(code, a.end, n - n \div 2)
         IN  [starts |-> a.starts \o b.starts, end |-> b.end]

Instructions(code) == Decode(code, 0, Len(code)).starts

\* the argument counts of the CallFunc instructions of the bytecode, in order
CallFuncCounts(code) ==
    LET calls_at == SelectSeq(Instructions(code), LAMBDA o : code[o + 1] = OpCallFunc)
    IN  [j \in 1..Len(calls_at) |-> code[calls_at[j] + 4]]

\* every instruction of the bytecode is whole, has a defined opcode below 0x61
\* and, if it has a u16 operand, one below n
WellFormed(code, n) ==
    \A j \in 1..Len(Instructions(code)) :
        LET o == Instructions(code)[j] IN
        /\ code[o + 1] \in Opcodes
        /\ code[o + 1] < 97
        /\ o + InstrLen(code[o + 1]) <= Len(code)
        /\ InstrLen(code[o + 1]) >= 3 => code[o + 2] + 256 * code[o + 3] < n
        /\ code[o + 1] = OpCallFunc => code[o + 4] <= 255

\* C17: in every successfully compiled program every instruction of every
\* probe's predicate and body has an opcode byte below 0x61, every u16 operand
\* of PushConst, LoadVar, StoreVar, GetAttr and CallFunc is an index below the
\* size of the constant pool, and every CallFunc argument count equals the
\* number of compiled arguments and is at most 255.
C17_CompiledProgramWellFormed ==
    pc = "compiled" =>
        LET n == Len(program.v.constant_pool) IN
        /\ Len(program.v.probes) = Len(given)
        /\ \A k \in 1..Len(given) :
              LET p == program.v.probes[k] IN
              /\ WellFormed(p.predicate, n)
              /\ WellFormed(p.body, n)
              /\ CallFuncCounts(p.predicate) =
                     (IF given[k].predicate.some THEN CallCounts(<<given[k].predicate.v>>)
                      ELSE <<>>)
              /\ CallFuncCounts(p.body) = BodyCallCounts(given[k].body, 1)

\* a capture of 255 arguments has been compiled, and one of 256 rejected
C17_Witness ==
    /\ pc = "compiled"
    /\ given = ManyPositional(255)
    /\ CallFuncCounts(program.v.probes[1].body) = <<255>>
    /\ Len(program.v.constant_pool) > 255
    /\ C17_CompiledProgramWellFormed

\* no two constants of the pool are structurally equal
Distinct(constants) == Cardinality({constants[j] : j \in 1..Len(constants)}) = Len(constants)

\* the step is a call of add_or_get_constant that returns
Interns == pc = "compiler" /\ budget' = budget - 1 /\ outcome'.r = "ok"

\* C18: interning a constant structurally equal to one already interned
\* returns the existing index and leaves the pool size unchanged; interning a
\* structurally new constant appends it and grows the pool by exactly one; a
\* compiled pool never contains two structurally equal constants.
C18_InterningDeduplicates ==
    /\ [][Interns =>
             LET before == compiler.constant_pool
                 after == compiler'.constant_pool
                 known == {j \in 1..Len(before) : before[j] = operands'}
             IN  IF known # {}
                 THEN after = before /\ outcome'.index + 1 \in known
                 ELSE after = Append(before, operands') /\ outcome'.index = Len(before)]_vars
    /\ [](/\ Distinct(compiler.constant_pool)
          /\ pc = "compiled" => Distinct(program.v.constant_pool))

\* a constant has been interned twice and a program compiled that uses it again
C18_Witness ==
    /\ pc = "compiled"
    /\ budget = 0
    /\ operands = CInt(7)
    /\ outcome.index = 0
    /\ given = parse_program(Tokens(ArithSource("7 + 3 * 2"), 1)).v
    /\ program.v.constant_pool = <<CInt(7), CInt(3), CInt(2), CFunctionName("capture")>>

\* C19: compiling a program that needs more distinct constants than the
\* constant pool can hold returns a compile error to the caller; it does not
\* panic.
C19_PoolOverflowIsCompileError ==
    (program # None_ /\ program.r # "ok" /\ Len(compiler.constant_pool) >= U16Max) =>
        program.r = "err"

(***************************************************************************)
(* Properties of compilation (Spec)                                        *)
(***************************************************************************)
\* the source parses and some probe body holds a sample statement
SampleInBody ==
    LET a == parse_program(Tokens(source, 1)) IN
    /\ a.r = "ok"
    /\ \E k \in 1..Len(a.v) : \E j \in 1..Len(a.v[k].body) : a.v[k].body[j].s = "Sample"

\* C20: compiling a program in which some probe body contains a sample
\* statement returns a compile error and produces no Program.
C20_SampleInBodyIsCompileError ==
    (pc # "source" /\ SampleInBody) => (pc = "rejected" /\ program.r = "err")

C20_Witness ==
    /\ source = "fn:t:entry { capture(1); } fn:t:exit { $req.x = 1; sample 5%; }"
    /\ SampleInBody
    /\ pc = "rejected"
    /\ program.r = "err"
    /\ program.m = "Sample statements should be handled at probe level"

(***************************************************************************)
(* Properties of serialization (Spec)                                      *)
(***************************************************************************)
Decoded == pc = "decoded"

\* the version field of serialized bytes (0 when the field is absent)
VersionOf(bytes) ==
    LET S == {i \in 1..Len(bytes) : bytes[i].num = 1} IN
    IF S = {} THEN 0 ELSE bytes[CHOOSE i \in S : \A j \in S : j <= i].v

\* C21: decoding the serialization of a compiled program succeeds and gives a
\* program with the same version, sampling, probes (id, spec, predicate and
\* body bytes, in order) and constants
C21_SerializationRoundTrip ==
    (Decoded /\ operands = to_proto_bytes(program.v).v) =>
        /\ outcome.r = "ok"
        /\ outcome.v.version = program.v.version
        /\ outcome.v.sampling = program.v.sampling
        /\ Len(outcome.v.probes) = Len(program.v.probes)
        /\ \A i \in 1..Len(program.v.probes) :
              /\ outcome.v.probes[i].id = program.v.probes[i].id
              /\ outcome.v.probes[i].spec = program.v.probes[i].spec
              /\ outcome.v.probes[i].predicate = program.v.probes[i].predicate
              /\ outcome.v.probes[i].body = program.v.probes[i].body
        /\ outcome.v.constant_pool = program.v.constant_pool

C21_Witness ==
    /\ Decoded
    /\ operands = to_proto_bytes(program.v).v
    /\ outcome.r = "ok"
    /\ Len(program.v.probes) = 2
    /\ \E i \in 1..Len(program.v.probes) :
          /\ program.v.probes[i].spec.target = "Exit"
          /\ program.v.probes[i].predicate # <<>>
    /\ Len(program.v.constant_pool) >= 3

\* C22: decoding a serialized program whose version is not 1 returns an error
C22_UnsupportedVersionRejected ==
    (Decoded /\ VersionOf(operands) # 1) => outcome.r = "err"

(***************************************************************************)
(* Properties of the parser (Spec)                                         *)
(***************************************************************************)
\* the first probe of the source: its tokens, the position after its probe
\* spec and, when a '/' follows, the result of parse_predicate_expr
FirstPredicate(s) ==
    LET T == Tokens(s, 1)
        spec == parser_call("parse_probe_spec", T, 1, <<>>, 0, 0)
    IN  IF spec.r = "ok" /\ check(T, spec.pos, "Slash")
        THEN [opened |-> TRUE, T |-> T, start |-> spec.pos + 1,
              expr |-> parser_call("parse_predicate_expr", T, spec.pos + 1, <<>>, 0, 0)]
        ELSE [opened |-> FALSE]

\* the predicate is opened and its expression is followed by another token than '/'
Unclosed(s) ==
    LET f == FirstPredicate(s) IN
    f.opened /\ f.expr.r = "ok" /\ Cur(f.T, f.expr.pos).k # "Slash"

\* C23: a probe whose predicate expression is not followed by a closing '/'
\* is rejected with a parse error, whatever token follows
C23_UnclosedPredicateRejected ==
    (pc # "source" /\ Unclosed(source)) => program.r = "err"

\* the sub-expressions of an expression
Children(x) ==
    CASE x.e = "Binary" -> <<x.left, x.right>>
      [] x.e = "Unary" -> <<x.expr>>
      [] x.e = "FieldAccess" -> <<x.object>>
      [] x.e = "IndexAccess" -> <<x.object, x.index>>
      [] x.e = "Call" -> x.args
      [] OTHER -> <<>>

\* the Binary nodes with operator op in the expressions of a worklist
RECURSIVE OpCount(_, _)
OpCount(ws, op) ==
    IF ws = <<>> THEN 0
    ELSE (IF ws[1].e = "Binary" /\ ws[1].op = op THEN 1 ELSE 0)
         + OpCount(Children(ws[1]) \o Tail(ws), op)

\* the '(' and '[' opened from token a on and still open before token p
Depth(T, a, p) ==
    Cardinality({q \in a..(p - 1) : T[q].k \in {"LParen", "LBracket"}})
    - Cardinality({q \in a..(p - 1) : T[q].k \in {"RParen", "RBracket"}})

SlashTokens(T, a, b) == {q \in a..(b - 1) : T[q].k = "Slash"}

\* C24: in a predicate every '/' met while a '(' or '[' of the predicate is
\* open is parsed as a division, and the predicate ends at the first '/' met
\* with none open; predicates whose '/' all stand inside parentheses or
\* brackets are parsed to their closing '/'
C24_SlashEndsAtDepthZero ==
    (pc \in {"compiled", "rejected"} /\ FirstPredicate(source).opened) =>
        LET f == FirstPredicate(source) IN
        /\ source \in DivisionSources => f.expr.r = "ok"
        /\ f.expr.r = "ok" =>
              /\ \A q \in SlashTokens(f.T, f.start, f.expr.pos) : Depth(f.T, f.start, q) > 0
              /\ OpCount(<<f.expr.v>>, "Div") = Cardinality(SlashTokens(f.T, f.start, f.expr.pos))
              /\ Cur(f.T, f.expr.pos).k = "Slash" => Depth(f.T, f.start, f.expr.pos) = 0
              /\ source \in DivisionSources \cup SlashSources =>
                    Cur(f.T, f.expr.pos).k = "Slash"

\* a predicate with two divisions inside parentheses, ended by its '/'
C24_Witness ==
    /\ pc = "compiled"
    /\ FirstPredicate(source).opened
    /\ FirstPredicate(source).expr.r = "ok"
    /\ OpCount(<<FirstPredicate(source).expr.v>>, "Div") >= 2
    /\ Cur(FirstPredicate(source).T, FirstPredicate(source).expr.pos).k = "Slash"

\* the expression a source of the form ArithSource(text) or
\* PredicateSource(text) is parsed to: Ok(expression) or the parse error
ExprOf(s) ==
    LET ast == parse_program(Tokens(s, 1)) IN
    IF ast.r # "ok" THEN ast
    ELSE IF ast.v[1].predicate.some THEN Ok(ast.v[1].predicate.v)
    ELSE Ok(ast.v[1].body[1].items[1])

\* C25: `.name` and `[expr]` bind tighter than `!` and than every binary
\* operator, in capture arguments and in predicates
C25_PostfixBindsTighter ==
    \A c \in PostfixCases :
       (pc \in {"compiled", "rejected"}
        /\ source \in {ArithSource(c.text), PredicateSource(c.text)}) =>
            ExprOf(source) = Ok(c.ast)

\* C26: binary operators group by the precedence order
\* `||` < `&&` < `== !=` < `< > <= >=` < `+ -` < `* / %`, and operators of
\* equal precedence group to the left
C26_PrecedenceAndLeftAssociativity ==
    \A c \in PrecedenceCases :
       (pc \in {"compiled", "rejected"}
        /\ source \in {ArithSource(c.text), PredicateSource(c.text)}) =>
            ExprOf(source) = Ok(c.ast)

\* a chain through all six levels was parsed as a predicate and compiled
C26_Witness ==
    /\ pc = "compiled"
    /\ source = PredicateSource("a || b && c == d < e + f * g")
    /\ ExprOf(source).r = "ok"
    /\ OpCount(<<ExprOf(source).v>>, "Mul") = 1

(***************************************************************************)
(* Properties of the lexer (SpecLexer)                                     *)
(***************************************************************************)
\* every token yielded so far that is not Eof consumed at least one
\* character, and Eof was yielded only as the last token, at the end of the
\* input
TokensProgress ==
    \A j \in 1..Len(log) :
        IF log[j].tok.k = "Eof"
        THEN j = Len(log) /\ pc = "eof" /\ log[j].to = Len(source) + 1
        ELSE log[j].to > log[j].from /\ log[j].to <= Len(source) + 1

\* C27: calling next_token repeatedly yields a finite token sequence that
\* ends in exactly one Eof; every other token consumes at least one
\* character, and Eof is yielded only once the input is exhausted
C27_LexerTerminatesWithOneEof ==
    /\ []TokensProgress
    /\ [](Len(log) <= Len(source) + 1)
    /\ [](pc = "eof" => (log # <<>> /\ log[Len(log)].tok.k = "Eof"))
    /\ [](pc = "lexing" => <>(pc = "eof"))

\* a source with a comment, a string and a `$` was lexed to its end
C27_Witness ==
    /\ pc = "eof"
    /\ Len(log) >= 4
    /\ \E j \in 1..Len(log) : log[j].tok.k = "String"
    /\ \E j \in 1..Len(log) : log[j].tok.k = "Req"
    /\ \E j \in 1..Len(log) : log[j].to > log[j].from + 6

(***************************************************************************)
(* Properties of the compiled bytecode (Spec)                              *)
(***************************************************************************)
\* C28: in every probe of a successfully compiled program a non-empty
\* predicate starts with a byte below 50, and so does a non-empty body
C28_FirstByteBelowFifty ==
    (pc # "source" /\ program.r = "ok") =>
        \A j \in 1..Len(program.v.probes) :
            /\ program.v.probes[j].predicate # <<>> => program.v.probes[j].predicate[1] < 50
            /\ program.v.probes[j].body # <<>> => program.v.probes[j].body[1] < 50

(***************************************************************************)
(* Properties of the exit variables (Spec)                                 *)
(***************************************************************************)
\* the firing ended with an error at a load of the variable
LoadFailed(name) ==
    /\ pc = "returned"
    /\ result.r = "err"
    /\ log # <<>>
    /\ log[Len(log)].op = "load_variable"
    /\ log[Len(log)].name = name

Loaded(name) ==
    \E j \in 1..Len(log) : log[j].op = "load_variable" /\ log[j].name = name

\* C29: in every firing of an exit probe, also one without return value and
\* without exception, loading `exception` succeeds; in every firing of an
\* entry probe loading `retval` or `exception` is an error
C29_ExitVariablesByProbeKind ==
    /\ (Fired /\ probe.spec.target = "Exit") => ~LoadFailed("exception")
    /\ \A name \in {"retval", "exception"} :
          (pc = "returned" /\ probe.spec.target = "Entry" /\ Loaded(name)) =>
              LoadFailed(name)

(***************************************************************************)
(* Properties of a reused Compiler (SpecReuse)                             *)
(***************************************************************************)
\* what compile of the AST returns on a Compiler fresh from Compiler::new
FreshCompile(ast) ==
    LET c == compiler_call("compile", Compiler_new, ast, 0, <<>>) IN
    IF c.r = "ok" THEN Ok(c.program) ELSE [r |-> c.r, m |-> c.m]

\* C30: compile on a Compiler that has already performed a compile, one that
\* succeeded or one that failed part-way through a probe, returns the
\* constant pool and the predicate and body bytecode that a fresh Compiler
\* returns for the same AST
C30_CompileDependsOnlyOnAst ==
    (pc \in {"compiled", "rejected"} /\ log # <<>>) => program = FreshCompile(given)

====
